---- MODULE Spec2Model ----
(***************************************************************************)
(* A model of the Zysys API test framework: the Concurrency Coordinator    *)
(* (EndpointTester.run_tests), the Request Executor (run_test) and the     *)
(* Response Validator (validate_response) of src/src/core.py, with the     *)
(* configuration loading of src/src/cli.py.                                *)
(*                                                                         *)
(* Python values are modelled as follows.  A dict is a function whose      *)
(* domain is its key set.  A str that the code takes apart (body, header   *)
(* values, patterns) is a sequence of one-character strings; a str that is *)
(* only passed around (names, messages) is a TLA+ string.  None is the     *)
(* string "<None>".  A value whose dynamic type the code inspects with     *)
(* isinstance carries it in a field py.                                    *)
(***************************************************************************)
EXTENDS Integers, Sequences, FiniteSets, TLC

\* ---------------------------------------------------------------- bounds
NumCases == 3
MaxConcurrent == 2
MaxRetries == 2
DetectedCpus == 2
MaxItems == 2
MaxResolves == 2
MaxDocs == 2
MaxClock == 2

\* ------------------------------------------------------- python helpers
None == "<None>"

\* dict.get(key, default)
Get(d, key, default) == IF key \in DOMAIN d THEN d[key] ELSE default

\* the empty dict
EmptyDict == [k \in {} |-> None]

\* the dicts {} and {key: v} for v in values
Optional(key, values) == {EmptyDict} \cup {key :> v : v \in values}

\* range(n) of a for loop: the indices 0 .. n-1, empty when n <= 0
range(n) == 0 .. (n - 1)

\* str(e) of an exception: its message
str(e) == e.msg

\* A url is a sequence of parts: the scheme and host in one part when the
\* url has them, then the path with every "/" a part of its own.
\* urllib.parse.urljoin for urls without dot segments, query or fragment: a
\* reference with a scheme stands for itself, a path that starts with "/"
\* replaces the path of the base, any other path replaces what follows the
\* last "/" of the base
urljoin(base, rel) ==
    IF rel = <<>> THEN base
    ELSE IF rel[1] \in {"http://h", "http://x"} THEN rel
    ELSE IF rel[1] = "/" THEN <<base[1]>> \o rel
    ELSE LET slashes == {j \in 2 .. Len(base) : base[j] = "/"}
         IN  IF slashes = {} THEN <<base[1], "/">> \o rel
             ELSE SubSeq(base, 1, CHOOSE j \in slashes : \A k \in slashes : k <= j) \o rel

\* ------------------------------------------------------------ variables
VARIABLES
    config_yaml,    \* the parsed content of config.yaml
    cpu_count,      \* what psutil reports to get_cpu_count
    cli_config,     \* the dict ZysysTestCLI.load_config returned
    global_config,  \* EndpointTester.global_config
    tests,          \* EndpointTester.tests
    phase,          \* where run_tests is
    semaphore,      \* the value of the asyncio.Semaphore
    session,        \* the aiohttp.ClientSession: "none", "open", "closed"
    pc,             \* per task of gather: "pending", "inflight", "sleep", "done"
    issued,         \* per task: session.request calls made so far
    log,            \* per task: how each finished attempt ended
    results,        \* per task: what gather collected for it
    idx,            \* position of the result loop of run_tests
    passed,         \* run_tests' counter
    failed,         \* run_tests' counter
    ret,            \* what run_tests returned / raised
    v_pc,           \* the call of validate_response: "off", "call", "done"
    v_expected,     \* its argument expected
    v_actual,       \* its argument actual
    v_out,          \* what it returned or raised
    extension_files,  \* the modules of test/extensions not yet imported
    USER_EXTENSIONS,  \* the registry the @extension decorator fills
    core_extensions,  \* ExtensionLoader.core_extensions
    user_extensions,  \* ExtensionLoader.user_extensions
    precedence,       \* ExtensionLoader.precedence
    e_pc,           \* load_user_extensions: "off", "loading", "loaded"
    resolved,       \* the calls of resolve_extension so far: name and outcome
    p_pc,           \* the call of process_test_with_extensions: "off", "call", "done"
    p_config,       \* its argument test_config
    processed,      \* what it returned or raised
    calls,          \* the extension methods it called, in order
    directory,      \* the test directory: its *.yaml files and their content
    yaml_files,     \* the files the loop of load_all_tests has not reached
    l_pc,           \* load_all_tests: "off", "loading", "returned"
    origin,         \* per entry of tests: the file and position it came from
    clock,          \* the time of the event loop
    start_time,     \* per task: start_time of run_test
    requests        \* per task: the calls of session.request so far

\* the extension system
registry == <<USER_EXTENSIONS, core_extensions, user_extensions, precedence>>
extvars == <<extension_files, registry, e_pc, resolved, p_pc, p_config, processed,
            calls>>

\* the test directory and the loop of load_all_tests over it
loadvars == <<directory, yaml_files, l_pc, origin>>

\* the arguments and the outcome of validate_response
valvars == <<v_pc, v_expected, v_actual, v_out>>

\* written by no step of run_tests
static == <<config_yaml, cpu_count, cli_config, global_config, tests,
            valvars, extvars, loadvars>>

\* written by run_tests
runvars == <<phase, semaphore, session, pc, issued, log, results, idx,
             passed, failed, ret, clock, start_time, requests>>

vars == <<config_yaml, cpu_count, cli_config, global_config, tests, phase,
          semaphore, session, pc, issued, log, results, idx, passed, failed, ret,
          v_pc, v_expected, v_actual, v_out, extension_files, USER_EXTENSIONS,
          core_extensions, user_extensions, precedence, e_pc, resolved, p_pc,
          p_config, processed, calls, directory, yaml_files, l_pc, origin,
          clock, start_time, requests>>

Cases == 1 .. NumCases

\* --------------------------------------------------------- configuration
\* ZysysTestCLI.get_cpu_count
get_cpu_count(detected) == IF detected >= 1 THEN detected ELSE 1

\* ZysysTestCLI.load_config: concurrent 0 or absent becomes the cpu count
load_config(yaml, detected) ==
    IF Get(yaml, "concurrent", 0) = 0
    THEN [k \in DOMAIN yaml \cup {"concurrent"} |->
            IF k = "concurrent" THEN get_cpu_count(detected) ELSE yaml[k]]
    ELSE yaml

\* EndpointTester.load_global_config: the parsed file as it is
load_global_config(yaml) == yaml

ConfigFiles ==
    { ("baseUrl" :> <<"http://h">>) @@ c @@ r @@ s :
        c \in Optional("concurrent", -1 .. MaxConcurrent),
        r \in Optional("retries", -1 .. MaxRetries),
        s \in Optional("stop-on-fail", {TRUE}) }

\* ------------------------------------------------------------ exceptions
TimeoutError == [type |-> "TimeoutError", msg |-> ""]
ClientError == [type |-> "ClientConnectorError", msg |-> "Cannot connect to host"]
KeyError(key) == [type |-> "KeyError", msg |-> key]
ValueError(m) == [type |-> "ValueError", msg |-> m]
AttributeError(m) == [type |-> "AttributeError", msg |-> m]

\* ------------------------------------------------------------- str methods
Whitespace == {" ", "\n", "\t"}

\* str.startswith
startswith(s, prefix) ==
    /\ Len(prefix) <= Len(s)
    /\ SubSeq(s, 1, Len(prefix)) = prefix

\* the operator `sub in s` on two str
Contains(sub, s) ==
    \E k \in 0 .. (Len(s) - Len(sub)) : SubSeq(s, k + 1, k + Len(sub)) = sub

RECURSIVE lstrip(_)
lstrip(s) ==
    IF s # <<>> /\ Head(s) \in Whitespace THEN lstrip(Tail(s)) ELSE s

RECURSIVE rstrip(_)
rstrip(s) ==
    IF s # <<>> /\ s[Len(s)] \in Whitespace
    THEN rstrip(SubSeq(s, 1, Len(s) - 1))
    ELSE s

\* str.strip
strip(s) == rstrip(lstrip(s))

\* str.lower on the header names the model uses
lower(name) ==
    CASE name = "Content-Type" -> "content-type"
      [] name = "CONTENT-TYPE" -> "content-type"
      [] name = "Access-Control-Allow-Origin" -> "access-control-allow-origin"
      [] OTHER -> name

\* str.upper on a str held as its characters
upper(s) ==
    LET lowercase ==
            << "a", "b", "c", "d", "e", "f", "g", "h", "i", "j", "k", "l", "m",
               "n", "o", "p", "q", "r", "s", "t", "u", "v", "w", "x", "y", "z" >>
        uppercase ==
            << "A", "B", "C", "D", "E", "F", "G", "H", "I", "J", "K", "L", "M",
               "N", "O", "P", "Q", "R", "S", "T", "U", "V", "W", "X", "Y", "Z" >>
    IN  [j \in 1 .. Len(s) |->
            IF \E k \in 1 .. 26 : lowercase[k] = s[j]
            THEN uppercase[CHOOSE k \in 1 .. 26 : lowercase[k] = s[j]]
            ELSE s[j]]

\* re.search(pattern, body, re.MULTILINE) for patterns made of literal
\* characters and ".", with an optional leading "^" and trailing "$"
re_core(pattern) ==
    LET a == IF pattern # <<>> /\ Head(pattern) = "^" THEN Tail(pattern) ELSE pattern
    IN  IF a # <<>> /\ a[Len(a)] = "$" THEN SubSeq(a, 1, Len(a) - 1) ELSE a

re_search(pattern, body) ==
    LET core == re_core(pattern)
        n == Len(core)
        bol == pattern # <<>> /\ Head(pattern) = "^"
        eol == pattern # <<>> /\ pattern[Len(pattern)] = "$" /\ Len(pattern) > (IF bol THEN 1 ELSE 0)
    IN  \E p \in 0 .. (Len(body) - n) :
            /\ \A j \in 1 .. n :
                  IF core[j] = "." THEN body[p + j] # "\n" ELSE body[p + j] = core[j]
            /\ bol => (p = 0 \/ body[p] = "\n")
            /\ eol => (p + n = Len(body) \/ body[p + n + 1] = "\n")

\* a dict that keeps insertion order and is iterated (the response headers)
\* is a sequence of <<key, value>> pairs with distinct keys
items(d) == d
HasKey(d, key) == \E j \in 1 .. Len(d) : d[j][1] = key
ItemGet(d, key, default) ==
    IF HasKey(d, key)
    THEN d[CHOOSE j \in 1 .. Len(d) : d[j][1] = key][2]
    ELSE default

\* response.headers is a case-insensitive multidict: a sequence of
\* <<name, value>> pairs in the order and letter case the server sent them,
\* names may repeat; headers[key] is the first value whose name equals key
\* whatever the letter case
getitem(headers, key) ==
    LET hits == {j \in 1 .. Len(headers) : lower(headers[j][1]) = lower(key)}
    IN  headers[CHOOSE j \in hits : \A h \in hits : j <= h][2]

\* the names of a multidict as keys() yields them, each spelling once
RECURSIVE keys(_)
keys(headers) ==
    IF headers = <<>> THEN <<>>
    ELSE LET front == keys(SubSeq(headers, 1, Len(headers) - 1))
             name == headers[Len(headers)][1]
         IN  IF \E j \in 1 .. Len(front) : front[j] = name
             THEN front
             ELSE Append(front, name)

\* dict(response.headers): a plain dict with one entry for each spelling of a
\* name, holding headers[name]
dict(headers) ==
    [j \in 1 .. Len(keys(headers)) |->
        <<keys(headers)[j], getitem(headers, keys(headers)[j])>>]

\* an int, a str and a dict as values whose type the code inspects
PyInt(n) == [py |-> "int", val |-> n]
PyStr(chars) == [py |-> "str", val |-> chars]
PyDict(d) == [py |-> "dict", val |-> d]

\* isinstance(x, dict)
isinstance_dict(x) == x.py = "dict"

\* x == n for an int n and a value x of any type
PyEqInt(n, x) == x.py = "int" /\ x.val = n

\* `x in xs` for a list xs
InList(x, xs) == \E j \in 1 .. Len(xs) : xs[j] = x

\* --------------------------------------------------------- what a call does
Return(v) == [kind |-> "return", value |-> v]
Raise(e) == [kind |-> "raise", exc |-> e]
\* the call has not ended yet
NotReturned == [kind |-> "running"]

\* ------------------------------------------------------ validate_response
\* a lookup that finds the header only under its lower-case spelling
actual_content_type_exact_name(headers) ==
    LET hits == {j \in 1 .. Len(headers) : headers[j][1] = "content-type"}
    IN  IF hits = {} THEN <<>>
        ELSE headers[CHOOSE j \in hits : \A h \in hits : j <= h][2]

\* the header lookup loop of the content-type rule: the first item whose
\* lower-cased key is content-type, '' when there is none
actual_content_type(headers) ==
    LET hits == {j \in 1 .. Len(headers) : lower(headers[j][1]) = "content-type"}
    IN  IF hits = {} THEN <<>>
        ELSE headers[CHOOSE j \in hits : \A h \in hits : j <= h][2]

\* a status rule that compares a multi-value expectation with its first value
status_failed_first_value(expected, actual) ==
    /\ "status" \in DOMAIN expected
    /\ LET expected_status == expected["status"]
       IN  IF isinstance_dict(expected_status)
              /\ Get(expected_status.val, "type", None) = "multiple"
           THEN \/ expected_status.val["values"] = <<>>
                \/ actual["status"] # expected_status.val["values"][1]
           ELSE ~PyEqInt(actual["status"], expected_status)

\* the status rule fails (its `return False` is taken)
status_failed(expected, actual) ==
    /\ "status" \in DOMAIN expected
    /\ LET expected_status == expected["status"]
       IN  IF isinstance_dict(expected_status)
              /\ Get(expected_status.val, "type", None) = "multiple"
           THEN ~InList(actual["status"], expected_status.val["values"])
           ELSE ~PyEqInt(actual["status"], expected_status)

\* the content-type rule fails
content_type_failed(expected, actual) ==
    /\ "content-type" \in DOMAIN expected
    /\ LET expected_content_type == expected["content-type"]
           act == actual_content_type(items(actual["headers"]))
       IN  IF isinstance_dict(expected_content_type)
              /\ Get(expected_content_type.val, "type", None) = "multiple"
           THEN ~\E j \in 1 .. Len(expected_content_type.val["values"]) :
                    startswith(act, expected_content_type.val["values"][j])
           ELSE ~startswith(act, expected_content_type.val)

\* a CORS rule for which the expectation * accepts every origin
cors_failed_wildcard(expected, actual) ==
    /\ "cors" \in DOMAIN expected
    /\ LET cors_header == ItemGet(actual["headers"], "access-control-allow-origin", <<>>)
       IN  expected["cors"] # <<"*">> /\ ~Contains(expected["cors"], cors_header)

\* the CORS rule fails
cors_failed(expected, actual) ==
    /\ "cors" \in DOMAIN expected
    /\ LET cors_header == ItemGet(actual["headers"], "access-control-allow-origin", <<>>)
       IN  \/ expected["cors"] = <<"*">> /\ cors_header # <<"*">>
           \/ expected["cors"] # <<"*">> /\ ~Contains(expected["cors"], cors_header)

\* trimming that is off unless the configuration turns it on
trimmed_body_default_off(config, actual) ==
    IF Get(config, "trim", FALSE) THEN strip(actual["body"]) ELSE actual["body"]

\* the body the body rule compares
trimmed_body(config, actual) ==
    IF Get(config, "trim", TRUE) THEN strip(actual["body"]) ELSE actual["body"]

\* the body rule reads response_config['value'] and it is absent
response_raises(expected) ==
    /\ "response" \in DOMAIN expected
    /\ Get(expected["response"], "type", "exact") \in {"exact", "regex", "contains"}
    /\ "value" \notin DOMAIN expected["response"]

\* a body rule that rejects an expectation of a type it does not know
response_failed_unknown_type(config, expected, actual) ==
    /\ "response" \in DOMAIN expected
    /\ LET body == trimmed_body(config, actual)
           response_config == expected["response"]
           response_type == Get(response_config, "type", "exact")
       IN  CASE response_type = "exact" -> body # response_config["value"]
             [] response_type = "regex" -> ~re_search(response_config["value"], body)
             [] response_type = "contains" -> ~Contains(response_config["value"], body)
             [] response_type = "empty" -> body # <<>>
             [] OTHER -> TRUE

\* a body rule whose `contains` looks for the body inside the value
response_failed_swapped(config, expected, actual) ==
    /\ "response" \in DOMAIN expected
    /\ LET body == trimmed_body(config, actual)
           response_config == expected["response"]
           response_type == Get(response_config, "type", "exact")
       IN  CASE response_type = "exact" -> body # response_config["value"]
             [] response_type = "regex" -> ~re_search(response_config["value"], body)
             [] response_type = "contains" -> ~Contains(body, response_config["value"])
             [] response_type = "empty" -> body # <<>>
             [] OTHER -> FALSE

\* the body rule fails
response_failed(config, expected, actual) ==
    /\ "response" \in DOMAIN expected
    /\ LET body == trimmed_body(config, actual)
           response_config == expected["response"]
           response_type == Get(response_config, "type", "exact")
       IN  CASE response_type = "exact" -> body # response_config["value"]
             [] response_type = "regex" -> ~re_search(response_config["value"], body)
             [] response_type = "contains" -> ~Contains(response_config["value"], body)
             [] response_type = "empty" -> body # <<>>
             [] OTHER -> FALSE

\* validation that forgets the CORS rule
validate_response_without_cors(config, expected, actual) ==
    IF status_failed(expected, actual) THEN Return(FALSE)
    ELSE IF content_type_failed(expected, actual) THEN Return(FALSE)
    ELSE IF response_raises(expected) THEN Raise(KeyError("value"))
    ELSE IF response_failed(config, expected, actual) THEN Return(FALSE)
    ELSE Return(TRUE)

validate_response(config, expected, actual) ==
    IF status_failed(expected, actual) THEN Return(FALSE)
    ELSE IF content_type_failed(expected, actual) THEN Return(FALSE)
    ELSE IF cors_failed(expected, actual) THEN Return(FALSE)
    ELSE IF response_raises(expected) THEN Raise(KeyError("value"))
    ELSE IF response_failed(config, expected, actual) THEN Return(FALSE)
    ELSE Return(TRUE)

\* --------------------------------------------------------------- run_test
\* the TestResult dataclass
TestResult(name, url, passed_, expected, actual, error, duration) ==
    [kind |-> "TestResult", name |-> name, url |-> url, passed |-> passed_,
     expected |-> expected, actual |-> actual, error |-> error,
     duration |-> duration]

\* what gather holds for a task that has not finished
NoResult == [kind |-> "pending"]
\* a coroutine that fell off its end returned None
NoneResult == [kind |-> "None"]
\* gather(return_exceptions=True) collected an exception
ExceptionResult(e) == [kind |-> "Exception", exc |-> e]

\* a url built from relative-url whenever the test has one
build_url_relative_first(config, test) ==
    IF "relative-url" \in DOMAIN test
    THEN Return(urljoin(config["baseUrl"], test["relative-url"]))
    ELSE IF "url" \in DOMAIN test THEN Return(test["url"])
         ELSE Raise(KeyError("relative-url"))

\* "Build URL": test['relative-url'] raises KeyError when neither key is there
build_url(config, test) ==
    IF "url" \in DOMAIN test THEN Return(test["url"])
    ELSE IF "relative-url" \in DOMAIN test
         THEN Return(urljoin(config["baseUrl"], test["relative-url"]))
         ELSE Raise(KeyError("relative-url"))

test_name(test, url) == Get(test, "name", Get(test, "_source_file", url))

\* test.get('type', 'GET').upper()
request_method(test) == upper(Get(test, "type", <<"G", "E", "T">>))

\* "Prepare request": the keyword arguments of session.request
kwargs(test) == IF "body" \in DOMAIN test THEN "json" :> test["body"] ELSE EmptyDict

\* the call session.request(method, url, **kwargs)
session_request(verb, url, kw) == [method |-> verb, url |-> url, kwargs |-> kw]

\* the `except Exception` handler of run_test
error_result(test, url, e, duration) ==
    TestResult(test_name(test, url), url, FALSE,
               Get(test, "expected", EmptyDict), EmptyDict, str(e), duration)

\* a response that passes whatever validate_response says
response_result_always_passed(config, test, url, response, duration) ==
    LET actual == [status |-> response.status, body |-> response.body,
                   headers |-> dict(response.headers)]
        expected == Get(test, "expected", EmptyDict)
        valid == validate_response(config, expected, actual)
    IN  IF valid.kind = "raise"
        THEN error_result(test, url, valid.exc, duration)
        ELSE TestResult(test_name(test, url), url, TRUE, expected, actual, None,
                        duration)

\* the body of `async with session.request(...) as response`
response_result(config, test, url, response, duration) ==
    LET actual == [status |-> response.status, body |-> response.body,
                   headers |-> dict(response.headers)]
        expected == Get(test, "expected", EmptyDict)
        valid == validate_response(config, expected, actual)
    IN  IF valid.kind = "raise"
        THEN error_result(test, url, valid.exc, duration)
        ELSE TestResult(test_name(test, url), url, valid.value, expected, actual, None,
                        duration)

\* the timed-out attempt was the last one: `raise`
is_last_attempt(config, attempt) == attempt = Get(config, "retries", 1) - 1

\* ------------------------------------------------------------ test catalog
TestDoc(shape, i) ==
    LET tag == "_source_file" :> <<"t.yaml", i>>
    IN  CASE shape = "url" ->
               tag @@ ("url" :> <<"http://x", "/", "a">>)
                   @@ ("expected" :> ("status" :> PyInt(200)))
          [] shape = "relative-url" ->
               tag @@ ("relative-url" :> <<"/", "b">>) @@ ("name" :> "b")
                   @@ ("expected" :> ("status" :> PyInt(200)))
          [] OTHER -> tag @@ ("name" :> "c")

\* the documents a catalog may hold at position i: one with its endpoint
\* (relative to baseUrl in the first document, absolute in the others) and
\* one with neither url nor relative-url
DocShapes(i) == IF i = 1 THEN {"relative-url", "none"} ELSE {"url", "none"}

\* what the fake transport answers
Responses ==
    { [status |-> st, body |-> <<>>, headers |-> <<>>] : st \in {200, 500} }

\* ================================================== the extension system
\* The documents yaml.safe_load_all yields are Python values whose type the
\* block processor inspects: each carries it in the field py.  A dict is a
\* sequence of <<key, value>> pairs in insertion order, a list a sequence.
\* A str is a sequence of substrings whose concatenation it is: keys and
\* extension names are cut at "<" and ">" and after a leading "_", values
\* that are split or encoded are cut into characters.
PyList(xs) == [py |-> "list", val |-> xs]

\* a plain key, a key with an extension reference, an internal key
Key(name) == PyStr(<<name>>)
Tagged(base, extension_name) == PyStr(<<base, "<", extension_name, ">">>)
Internal(name) == PyStr(<<"_", name>>)

\* d[key] = value on a dict: an existing key keeps its place
setitem(d, key, value) ==
    IF \E j \in 1 .. Len(d) : d[j][1] = key
    THEN [j \in 1 .. Len(d) |-> IF d[j][1] = key THEN <<key, value>> ELSE d[j]]
    ELSE Append(d, <<key, value>>)

\* the position of the last sep in s, 0 when there is none
rfind(s, sep) ==
    LET hits == {j \in 1 .. Len(s) : s[j] = sep}
    IN  IF hits = {} THEN 0 ELSE CHOOSE j \in hits : \A h \in hits : h <= j

\* s.rsplit(sep, 1) for s containing sep
rsplit(s, sep) ==
    <<SubSeq(s, 1, rfind(s, sep) - 1), SubSeq(s, rfind(s, sep) + 1, Len(s))>>

\* s.rstrip(chars) for a single character
RECURSIVE rstrip_char(_, _)
rstrip_char(s, c) ==
    IF s # <<>> /\ s[Len(s)] = c
    THEN rstrip_char(SubSeq(s, 1, Len(s) - 1), c)
    ELSE s

\* s.split(sep)
RECURSIVE split(_, _)
split(s, sep) ==
    IF \E j \in 1 .. Len(s) : s[j] = sep
    THEN LET first == CHOOSE j \in 1 .. Len(s) :
                        s[j] = sep /\ \A h \in 1 .. (j - 1) : s[h] # sep
         IN  <<SubSeq(s, 1, first - 1)>> \o split(SubSeq(s, first + 1, Len(s)), sep)
    ELSE <<s>>

Digits == <<"0", "1", "2", "3", "4", "5", "6", "7", "8", "9">>
IsDigit(c) == \E d \in 1 .. 10 : Digits[d] = c
DigitValue(c) == (CHOOSE d \in 1 .. 10 : Digits[d] = c) - 1

RECURSIVE DecimalValue(_)
DecimalValue(s) ==
    IF s = <<>> THEN 0
    ELSE 10 * DecimalValue(SubSeq(s, 1, Len(s) - 1)) + DigitValue(s[Len(s)])

\* int(s): an optional sign and decimal digits, ValueError otherwise
int(s) ==
    LET signed == s # <<>> /\ Head(s) \in {"-", "+"}
        digits == IF signed THEN Tail(s) ELSE s
    IN  IF digits # <<>> /\ \A j \in 1 .. Len(digits) : IsDigit(digits[j])
        THEN Return(IF signed /\ Head(s) = "-"
                    THEN 0 - DecimalValue(digits)
                    ELSE DecimalValue(digits))
        ELSE Raise(ValueError("invalid literal for int() with base 10"))

\* str(n) of an int
RECURSIVE DecimalDigits(_)
DecimalDigits(n) ==
    IF n < 10 THEN <<Digits[n + 1]>>
    ELSE Append(DecimalDigits(n \div 10), Digits[(n % 10) + 1])

str_int(n) == IF n < 0 THEN <<"-">> \o DecimalDigits(0 - n) ELSE DecimalDigits(n)

\* the ASCII characters with the codes 32 .. 95 and 97 .. 122
Printable ==
    << " ", "!", "\"", "#", "$", "%", "&", "'", "(", ")", "*", "+",
       ",", "-", ".", "/", "0", "1", "2", "3", "4", "5", "6", "7",
       "8", "9", ":", ";", "<", "=", ">", "?", "@", "A", "B", "C",
       "D", "E", "F", "G", "H", "I", "J", "K", "L", "M", "N", "O",
       "P", "Q", "R", "S", "T", "U", "V", "W", "X", "Y", "Z", "[",
       "\\", "]", "^", "_" >>

Lowercase ==
    << "a", "b", "c", "d", "e", "f", "g", "h", "i", "j", "k", "l",
       "m", "n", "o", "p", "q", "r", "s", "t", "u", "v", "w", "x",
       "y", "z" >>

\* ord(c)
ord(c) ==
    IF \E k \in 1 .. Len(Lowercase) : Lowercase[k] = c
    THEN 96 + CHOOSE k \in 1 .. Len(Lowercase) : Lowercase[k] = c
    ELSE 31 + CHOOSE k \in 1 .. Len(Printable) : Printable[k] = c

\* s.encode('utf-8') for a str of these characters
encode(s) == [j \in 1 .. Len(s) |-> ord(s[j])]

Base64Alphabet ==
    << "A", "B", "C", "D", "E", "F", "G", "H", "I", "J", "K", "L", "M", "N", "O", "P",
       "Q", "R", "S", "T", "U", "V", "W", "X", "Y", "Z", "a", "b", "c", "d", "e", "f",
       "g", "h", "i", "j", "k", "l", "m", "n", "o", "p", "q", "r", "s", "t", "u", "v",
       "w", "x", "y", "z", "0", "1", "2", "3", "4", "5", "6", "7", "8", "9", "+", "/" >>

\* base64.b64encode(data).decode('utf-8')
RECURSIVE b64encode(_)
b64encode(data) ==
    LET sextet(n) == Base64Alphabet[n + 1]
        b(j) == IF j <= Len(data) THEN data[j] ELSE 0
        n == b(1) * 65536 + b(2) * 256 + b(3)
    IN  IF data = <<>> THEN <<>>
        ELSE <<sextet(n \div 262144), sextet((n \div 4096) % 64),
               IF Len(data) >= 2 THEN sextet((n \div 64) % 64) ELSE "=",
               IF Len(data) >= 3 THEN sextet(n % 64) ELSE "=">>
             \o (IF Len(data) > 3 THEN b64encode(SubSeq(data, 4, Len(data))) ELSE <<>>)

\* --------------------------------------------------------- the extensions
\* an instance of an Extension class; dict.get returns None for a missing key
Extension(cls) == [cls |-> cls]
NoExtension == [cls |-> "NoneType"]

\* bool(x): no Extension class defines __bool__ or __len__, so every
\* instance is true and None is false
bool(x) == x.cls # "NoneType"

\* a or b
Or(a, b) == IF bool(a) THEN a ELSE b

\* a process that leaves the status codes the strings they are
MultipleExtension_process_keeping_str(block_name, block_value, context) ==
    IF block_value.py = "str" /\ \E j \in 1 .. Len(block_value.val) : block_value.val[j] = "|"
    THEN LET parts == split(block_value.val, "|")
             values == [j \in 1 .. Len(parts) |-> strip(parts[j])]
         IN  PyDict(<< <<Key("type"), PyStr(<<"multiple">>)>>,
                       <<Key("values"),
                         PyList([j \in 1 .. Len(values) |-> PyStr(values[j])])>> >>)
    ELSE block_value

\* MultipleExtension.process
MultipleExtension_process(block_name, block_value, context) ==
    IF block_value.py = "str" /\ \E j \in 1 .. Len(block_value.val) : block_value.val[j] = "|"
    THEN LET parts == split(block_value.val, "|")
             values == [j \in 1 .. Len(parts) |-> strip(parts[j])]
             converted_values ==
                 [j \in 1 .. Len(values) |->
                     IF int(values[j]).kind = "return"
                     THEN PyInt(int(values[j]).value)
                     ELSE PyStr(values[j])]
         IN  IF block_name = <<"status">>
             THEN PyDict(<< <<Key("type"), PyStr(<<"multiple">>)>>,
                            <<Key("values"), PyList(converted_values)>> >>)
             ELSE PyDict(<< <<Key("type"), PyStr(<<"multiple">>)>>,
                            <<Key("values"),
                              PyList([j \in 1 .. Len(values) |-> PyStr(values[j])])>> >>)
    ELSE block_value

\* EncodedValuesExtension.process
EncodedValuesExtension_process(block_name, block_value, context) ==
    IF block_value.py = "dict"
    THEN PyDict([j \in 1 .. Len(block_value.val) |->
            LET key == block_value.val[j][1]
                value == block_value.val[j][2]
            IN  CASE value.py = "str" -> <<key, PyStr(b64encode(encode(value.val)))>>
                  [] value.py = "int" -> <<key, PyStr(b64encode(encode(str_int(value.val))))>>
                  [] OTHER -> <<key, value>>])
    ELSE block_value

\* TestExtension.process of examples/extensions/extension_example.py
TestExtension_process(block_name, block_value, context) ==
    IF block_name = <<"headers">>
    THEN IF block_value.py = "dict"
         THEN PyDict(setitem(block_value.val, Key("X-Test-Extension"), PyStr(<<"loaded">>)))
         ELSE PyDict(<< <<Key("X-Test-Extension"), PyStr(<<"loaded">>)>> >>)
    ELSE block_value

\* a user extension in the manner of the examples, whose process is
\* `return int(block_value)`: it raises ValueError for a str that is no number
IntExtension_process(block_name, block_value, context) ==
    IF block_value.py = "str"
    THEN IF int(block_value.val).kind = "raise"
         THEN int(block_value.val)
         ELSE Return(PyInt(int(block_value.val).value))
    ELSE Return(block_value)

\* extension.process(block_name, block_value, context)
process(extension, block_name, block_value, context) ==
    CASE extension.cls = "MultipleExtension" ->
            Return(MultipleExtension_process(block_name, block_value, context))
      [] extension.cls = "EncodedValuesExtension" ->
            Return(EncodedValuesExtension_process(block_name, block_value, context))
      [] extension.cls = "TestExtension" ->
            Return(TestExtension_process(block_name, block_value, context))
      [] extension.cls = "IntExtension" ->
            IntExtension_process(block_name, block_value, context)

\* MultipleExtension.validate
MultipleExtension_validate(block_name, block_value) ==
    IF block_value.py = "str" /\ \E j \in 1 .. Len(block_value.val) : block_value.val[j] = "|"
    THEN LET parts == split(block_value.val, "|")
             values == [j \in 1 .. Len(parts) |-> strip(parts[j])]
         IN  Len(values) > 1 /\ \A j \in 1 .. Len(values) : values[j] # <<>>
    ELSE TRUE

\* EncodedValuesExtension.validate
EncodedValuesExtension_validate(block_name, block_value) ==
    IF block_value.py = "dict"
    THEN \A j \in 1 .. Len(block_value.val) : block_value.val[j][2].py \in {"str", "int"}
    ELSE FALSE

\* extension.validate(block_name, block_value); the user extensions return True
validate(extension, block_name, block_value) ==
    CASE extension.cls = "MultipleExtension" ->
            MultipleExtension_validate(block_name, block_value)
      [] extension.cls = "EncodedValuesExtension" ->
            EncodedValuesExtension_validate(block_name, block_value)
      [] OTHER -> TRUE

\* CORE_EXTENSIONS once the package is imported
CORE_EXTENSIONS ==
    (<<"multiple">> :> Extension("MultipleExtension"))
        @@ (<<"encoded_values">> :> Extension("EncodedValuesExtension"))

\* dict.update
update(d, other) ==
    [k \in DOMAIN d \cup DOMAIN other |-> IF k \in DOMAIN other THEN other[k] ELSE d[k]]

\* -------------------------------------------------------- ExtensionLoader
\* the loader as the methods below read it
Loader(core, user, flag) ==
    [core_extensions |-> core, user_extensions |-> user, precedence |-> flag]

\* a resolution that consults only the namespace the precedence favours
resolve_extension_favoured_only(self, extension_name) ==
    IF self.precedence = "core"
    THEN Get(self.core_extensions, extension_name, NoExtension)
    ELSE Get(self.user_extensions, extension_name, NoExtension)

\* ExtensionLoader.resolve_extension
resolve_extension(self, extension_name) ==
    IF self.precedence = "core"
    THEN Or(Get(self.core_extensions, extension_name, NoExtension),
            Get(self.user_extensions, extension_name, NoExtension))
    ELSE Or(Get(self.user_extensions, extension_name, NoExtension),
            Get(self.core_extensions, extension_name, NoExtension))

\* the test `'<' in key and key.endswith('>')` on a str key
has_extension_syntax(key) ==
    /\ key.py = "str"
    /\ \E j \in 1 .. Len(key.val) : key.val[j] = "<"
    /\ key.val[Len(key.val)] = ">"

\* a handler that puts the empty string in the place of the block
process_block_with_extensions_blanking(self, block_name, block_value, context) ==
    IF has_extension_syntax(block_name)
    THEN LET base_name == rsplit(block_name.val, "<")[1]
             extension_name == rstrip_char(rsplit(block_name.val, "<")[2], ">")
             extension == resolve_extension(self, extension_name)
         IN  IF bool(extension)
             THEN LET call == process(extension, base_name, block_value, context)
                  IN  IF call.kind = "raise" THEN PyStr(<<>>) ELSE call.value
             ELSE block_value
    ELSE block_value

\* ExtensionLoader.process_block_with_extensions
process_block_with_extensions(self, block_name, block_value, context) ==
    IF has_extension_syntax(block_name)
    THEN LET base_name == rsplit(block_name.val, "<")[1]
             extension_name == rstrip_char(rsplit(block_name.val, "<")[2], ">")
             extension == resolve_extension(self, extension_name)
         IN  IF bool(extension)
             THEN LET call == process(extension, base_name, block_value, context)
                  IN  IF call.kind = "raise" THEN block_value ELSE call.value
             ELSE block_value
    ELSE block_value

\* ---------------------------------------------------- the block processor
RECURSIVE process_test_with_extensions(_, _)
RECURSIVE process_list(_, _)
RECURSIVE process_items(_, _, _, _)

\* the list comprehension over the items of a list value
process_list(self, xs) ==
    IF xs = <<>> THEN Return(<<>>)
    ELSE LET first == IF xs[1].py = "dict"
                      THEN process_test_with_extensions(self, xs[1])
                      ELSE Return(xs[1])
             others == process_list(self, Tail(xs))
         IN  IF first.kind = "raise" THEN first
             ELSE IF others.kind = "raise" THEN others
             ELSE Return(<<first.value>> \o others.value)

\* a loop that stores the processed value under the key as written
process_items_keeping_key(self, test_config, j, done) ==
    LET entries == test_config.val
        key == entries[j][1]
        value == entries[j][2]
        context == [test_config |-> test_config]
        rest(d) == process_items(self, test_config, j + 1, d)
    IN  IF j > Len(entries) THEN Return(PyDict(done))
        ELSE IF key.py # "str"
        THEN Raise(AttributeError("'int' object has no attribute 'startswith'"))
        ELSE IF startswith(key.val, <<"_">>)
        THEN rest(setitem(done, key, value))
        ELSE IF value.py = "dict"
        THEN LET sub == process_test_with_extensions(self, value)
             IN  IF sub.kind = "raise" THEN sub ELSE rest(setitem(done, key, sub.value))
        ELSE IF value.py = "list"
        THEN LET sub == process_list(self, value.val)
             IN  IF sub.kind = "raise" THEN sub
                 ELSE rest(setitem(done, key, PyList(sub.value)))
        ELSE LET processed_value ==
                     process_block_with_extensions(self, key, value, context)
             IN  IF has_extension_syntax(key)
                 THEN rest(setitem(done, key, processed_value))
                 ELSE rest(setitem(done, key, processed_value))

\* the loop `for key, value in test_config.items()` from its j-th item on,
\* `done` being the dict `processed` so far
process_items(self, test_config, j, done) ==
    LET entries == test_config.val
        key == entries[j][1]
        value == entries[j][2]
        context == [test_config |-> test_config]
        rest(d) == process_items(self, test_config, j + 1, d)
    IN  IF j > Len(entries) THEN Return(PyDict(done))
        ELSE IF key.py # "str"
        THEN Raise(AttributeError("'int' object has no attribute 'startswith'"))
        ELSE IF startswith(key.val, <<"_">>)
        THEN rest(setitem(done, key, value))
        ELSE IF value.py = "dict"
        THEN LET sub == process_test_with_extensions(self, value)
             IN  IF sub.kind = "raise" THEN sub ELSE rest(setitem(done, key, sub.value))
        ELSE IF value.py = "list"
        THEN LET sub == process_list(self, value.val)
             IN  IF sub.kind = "raise" THEN sub
                 ELSE rest(setitem(done, key, PyList(sub.value)))
        ELSE LET processed_value ==
                     process_block_with_extensions(self, key, value, context)
             IN  IF has_extension_syntax(key)
                 THEN rest(setitem(done, PyStr(rsplit(key.val, "<")[1]), processed_value))
                 ELSE rest(setitem(done, key, processed_value))

\* EndpointTester.process_test_with_extensions
process_test_with_extensions(self, test_config) ==
    process_items(self, test_config, 1, <<>>)

\* ------------------------------------------- the calls the processor makes
\* a call of a method of an extension
Call(method, extension, block_name, block_value, context) ==
    [method |-> method, extension |-> extension, block_name |-> block_name,
     block_value |-> block_value, context |-> context]

\* the extension methods process_block_with_extensions calls
block_calls(self, block_name, block_value, context) ==
    IF has_extension_syntax(block_name)
    THEN LET base_name == rsplit(block_name.val, "<")[1]
             extension_name == rstrip_char(rsplit(block_name.val, "<")[2], ">")
             extension == resolve_extension(self, extension_name)
         IN  IF bool(extension)
             THEN <<Call("process", extension, base_name, block_value, context)>>
             ELSE <<>>
    ELSE <<>>

RECURSIVE test_calls(_, _)
RECURSIVE list_calls(_, _)
RECURSIVE items_calls(_, _, _)

\* those the list comprehension makes, up to an item that raises
list_calls(self, xs) ==
    IF xs = <<>> THEN <<>>
    ELSE IF xs[1].py = "dict"
         THEN IF process_test_with_extensions(self, xs[1]).kind = "raise"
              THEN test_calls(self, xs[1])
              ELSE test_calls(self, xs[1]) \o list_calls(self, Tail(xs))
         ELSE list_calls(self, Tail(xs))

\* those the loop over test_config.items() makes from its j-th item on
items_calls(self, test_config, j) ==
    LET entries == test_config.val
        key == entries[j][1]
        value == entries[j][2]
        context == [test_config |-> test_config]
        rest == items_calls(self, test_config, j + 1)
    IN  IF j > Len(entries) THEN <<>>
        ELSE IF key.py # "str" THEN <<>>
        ELSE IF startswith(key.val, <<"_">>) THEN rest
        ELSE IF value.py = "dict"
        THEN IF process_test_with_extensions(self, value).kind = "raise"
             THEN test_calls(self, value)
             ELSE test_calls(self, value) \o rest
        ELSE IF value.py = "list"
        THEN IF process_list(self, value.val).kind = "raise"
             THEN list_calls(self, value.val)
             ELSE list_calls(self, value.val) \o rest
        ELSE block_calls(self, key, value, context) \o rest

\* those one call of process_test_with_extensions makes
test_calls(self, test_config) == items_calls(self, test_config, 1)

\* ---------------------------------------------------------- load_all_tests
\* a tag that counts the documents from 0
source_file_from_zero(name, i) == name \o <<"#">> \o str_int(i)

\* f"{yaml_file.name}#{i+1}"
source_file(name, i) == name \o <<"#">> \o str_int(i + 1)

\* what the loop over the files has built: the list tests and, for each of
\* its entries, the file and the position among the file's documents
Catalog(entries, from) == [tests |-> entries, origin |-> from]

\* the loop `for i, doc in enumerate(documents)` from index i on; an
\* exception leaves it for the handler, which keeps what was appended
RECURSIVE load_documents(_, _, _, _, _)
load_documents(self, name, documents, i, catalog) ==
    IF i >= Len(documents) THEN catalog
    ELSE LET doc == documents[i + 1]
             tagged == PyDict(setitem(doc.val, Internal("source_file"),
                                      PyStr(source_file(name, i))))
             processed_doc == process_test_with_extensions(self, tagged)
         IN  IF doc.py # "dict"
             THEN load_documents(self, name, documents, i + 1, catalog)
             ELSE IF processed_doc.kind = "raise" THEN catalog
             ELSE load_documents(self, name, documents, i + 1,
                      Catalog(Append(catalog.tests, processed_doc.value),
                              Append(catalog.origin, <<name, i + 1>>)))

\* the content of a file: what open and yaml.safe_load_all make of it
YamlFile(documents) == [kind |-> "yaml", documents |-> documents]
Unreadable == [kind |-> "unreadable", documents |-> <<>>]
Malformed == [kind |-> "malformed", documents |-> <<>>]

\* the body of the loop over the files: open or list(safe_load_all) may
\* raise before any document is looked at
load_file(self, name, content, catalog) ==
    IF content.kind = "yaml"
    THEN load_documents(self, name, content.documents, 0, catalog)
    ELSE catalog

\* ---------------------------------------------- the loader once constructed
\* the extension system after EndpointTester.__init__ found no user module
\* and before any call of resolve_extension or of the block processor
ExtensionsLoaded(config) ==
    /\ extension_files = {}
    /\ USER_EXTENSIONS = EmptyDict
    /\ core_extensions = CORE_EXTENSIONS
    /\ user_extensions = EmptyDict
    /\ precedence = Get(config, "extension-precedence", "non-core")
    /\ e_pc = "loaded"
    /\ resolved = <<>>
    /\ p_pc = "off"
    /\ p_config = PyDict(<<>>)
    /\ processed = NotReturned
    /\ calls = <<>>

\* load_all_tests is not under way
LoadingOff ==
    /\ directory = [exists |-> FALSE, files |-> EmptyDict]
    /\ yaml_files = {}
    /\ l_pc = "off"
    /\ origin = <<>>

\* no run_test has started
NotStarted ==
    /\ clock = 0
    /\ start_time = [i \in Cases |-> 0]
    /\ requests = [i \in Cases |-> <<>>]

\* ----------------------------------------------------------------- Init
Init ==
    /\ config_yaml \in ConfigFiles
    /\ cpu_count = DetectedCpus
    /\ cli_config = load_config(config_yaml, cpu_count)
    /\ global_config = load_global_config(config_yaml)
    /\ tests \in {t \in [Cases -> UNION {{TestDoc(sh, i) : sh \in DocShapes(i)} : i \in Cases}] :
                    \A i \in Cases : t[i] \in {TestDoc(sh, i) : sh \in DocShapes(i)}}
    /\ phase = "start"
    /\ semaphore = 0
    /\ session = "none"
    /\ pc = [i \in Cases |-> "pending"]
    /\ issued = [i \in Cases |-> 0]
    /\ log = [i \in Cases |-> <<>>]
    /\ results = [i \in Cases |-> NoResult]
    /\ idx = 0
    /\ passed = 0
    /\ failed = 0
    /\ ret = NotReturned
    /\ NotStarted
    /\ v_pc = "off"
    /\ v_expected = EmptyDict
    /\ v_actual = EmptyDict
    /\ v_out = NotReturned
    /\ ExtensionsLoaded(global_config)
    /\ LoadingOff

\* -------------------------------------------------------------- run_tests
\* asyncio.Semaphore(value) raises ValueError for a negative value
SemaphoreValue(config) == Get(config, "concurrent", 10)

\* a run that imports a user module registering `multiple` before it dispatches
RunTestsStart_reloading ==
    /\ phase = "start"
    /\ IF SemaphoreValue(global_config) < 0
       THEN /\ phase' = "raised"
            /\ ret' = Raise(ValueError("Semaphore initial value must be >= 0"))
            /\ UNCHANGED <<semaphore, session>>
       ELSE /\ phase' = "gather"
            /\ semaphore' = SemaphoreValue(global_config)
            /\ session' = "open"
            /\ ret' = ret
    /\ USER_EXTENSIONS' = update(USER_EXTENSIONS,
                                  <<"multiple">> :> Extension("TestExtension"))
    /\ user_extensions' = update(user_extensions, USER_EXTENSIONS')
    /\ UNCHANGED <<config_yaml, cpu_count, cli_config, global_config, tests,
                   valvars, loadvars, extension_files, core_extensions, precedence,
                   e_pc, resolved, p_pc, p_config, processed, calls,
                   pc, issued, log, results, idx, passed, failed,
                   clock, start_time, requests>>

\* run_tests up to gather: the semaphore, the session, one task per test
RunTestsStart ==
    /\ phase = "start"
    /\ IF SemaphoreValue(global_config) < 0
       THEN /\ phase' = "raised"
            /\ ret' = Raise(ValueError("Semaphore initial value must be >= 0"))
            /\ UNCHANGED <<semaphore, session>>
       ELSE /\ phase' = "gather"
            /\ semaphore' = SemaphoreValue(global_config)
            /\ session' = "open"
            /\ ret' = ret
    /\ UNCHANGED <<static, clock, start_time, requests, pc, issued, log, results, idx, passed, failed>>

\* a gate that counts down but never closes
can_acquire_unbounded(value) == TRUE

\* Semaphore.acquire does not block
can_acquire(value) == value > 0

\* task i passes `async with semaphore` and runs run_test up to its first
\* suspension: the first session.request, or the end of run_test when the
\* url cannot be built or the retry loop has no iteration
Acquire(i) ==
    /\ phase = "gather"
    /\ pc[i] = "pending"
    /\ can_acquire(semaphore)
    /\ LET url == build_url(global_config, tests[i])
       IN  IF url.kind = "raise"
           THEN /\ results' = [results EXCEPT ![i] = ExceptionResult(url.exc)]
                /\ pc' = [pc EXCEPT ![i] = "done"]
                /\ UNCHANGED <<semaphore, issued, requests>>
           ELSE IF range(Get(global_config, "retries", 1)) = {}
           THEN /\ results' = [results EXCEPT ![i] = NoneResult]
                /\ pc' = [pc EXCEPT ![i] = "done"]
                /\ UNCHANGED <<semaphore, issued, requests>>
           ELSE /\ semaphore' = semaphore - 1
                /\ issued' = [issued EXCEPT ![i] = 1]
                /\ requests' = [requests EXCEPT ![i] =
                                  Append(@, session_request(request_method(tests[i]), url.value,
                                                            kwargs(tests[i])))]
                /\ pc' = [pc EXCEPT ![i] = "inflight"]
                /\ UNCHANGED results
    /\ start_time' = [start_time EXCEPT ![i] = clock]
    /\ UNCHANGED <<static, clock, phase, session, log, idx, passed, failed, ret>>

\* a task that leaves run_test without giving its permit back
Finish_keeping_permit(i, r, how) ==
    /\ results' = [results EXCEPT ![i] = r]
    /\ pc' = [pc EXCEPT ![i] = "done"]
    /\ log' = [log EXCEPT ![i] = Append(@, how)]
    /\ UNCHANGED <<semaphore, issued>>

\* task i leaves run_test and `async with semaphore` with result r
Finish(i, r, how) ==
    /\ results' = [results EXCEPT ![i] = r]
    /\ pc' = [pc EXCEPT ![i] = "done"]
    /\ log' = [log EXCEPT ![i] = Append(@, how)]
    /\ semaphore' = semaphore + 1
    /\ UNCHANGED issued

\* the request of task i is answered
Respond(i, response) ==
    /\ pc[i] = "inflight"
    /\ Finish(i, response_result(global_config, tests[i],
                                 build_url(global_config, tests[i]).value, response,
                                 clock - start_time[i]),
              "response")
    /\ UNCHANGED <<static, clock, start_time, requests, phase, session, idx, passed, failed, ret>>

\* any failure of the request handled like a timeout: retried after a pause
Fail_retried(i) ==
    /\ pc[i] = "inflight"
    /\ IF is_last_attempt(global_config, issued[i] - 1)
       THEN Finish(i, error_result(tests[i], build_url(global_config, tests[i]).value,
                                   ClientError, clock - start_time[i]),
                   "error")
       ELSE /\ pc' = [pc EXCEPT ![i] = "sleep"]
            /\ log' = [log EXCEPT ![i] = Append(@, "error")]
            /\ UNCHANGED <<results, semaphore, issued>>
    /\ UNCHANGED <<static, clock, start_time, requests, phase, session, idx, passed, failed, ret>>

\* the request of task i fails with something that is not a timeout
Fail(i) ==
    /\ pc[i] = "inflight"
    /\ Finish(i, error_result(tests[i], build_url(global_config, tests[i]).value,
                              ClientError, clock - start_time[i]),
              "error")
    /\ UNCHANGED <<static, clock, start_time, requests, phase, session, idx, passed, failed, ret>>

\* a timeout that is always followed by the pause
Timeout_always_pausing(i) ==
    /\ pc[i] = "inflight"
    /\ pc' = [pc EXCEPT ![i] = "sleep"]
    /\ log' = [log EXCEPT ![i] = Append(@, "timeout")]
    /\ UNCHANGED <<results, semaphore, issued>>
    /\ UNCHANGED <<static, clock, start_time, requests, phase, session, idx, passed, failed, ret>>

\* the request of task i times out: asyncio.TimeoutError
Timeout(i) ==
    /\ pc[i] = "inflight"
    /\ IF is_last_attempt(global_config, issued[i] - 1)
       THEN Finish(i, error_result(tests[i], build_url(global_config, tests[i]).value,
                                   TimeoutError, clock - start_time[i]),
                   "timeout")
       ELSE /\ pc' = [pc EXCEPT ![i] = "sleep"]
            /\ log' = [log EXCEPT ![i] = Append(@, "timeout")]
            /\ UNCHANGED <<results, semaphore, issued>>
    /\ UNCHANGED <<static, clock, start_time, requests, phase, session, idx, passed, failed, ret>>

\* a pause that ends in cancellation when stop-on-fail is set and another
\* case has already failed
Wake_cancelling(i) ==
    /\ pc[i] = "sleep"
    /\ IF /\ Get(global_config, "stop-on-fail", FALSE)
          /\ \E j \in Cases : results[j].kind = "TestResult" /\ ~results[j].passed
       THEN /\ results' = [results EXCEPT ![i] =
                              ExceptionResult([type |-> "CancelledError", msg |-> ""])]
            /\ pc' = [pc EXCEPT ![i] = "done"]
            /\ semaphore' = semaphore + 1
            /\ UNCHANGED <<issued, requests>>
       ELSE IF issued[i] \in range(Get(global_config, "retries", 1))
       THEN /\ issued' = [issued EXCEPT ![i] = @ + 1]
            /\ requests' = [requests EXCEPT ![i] =
                              Append(@, session_request(
                                            request_method(tests[i]),
                                            build_url(global_config, tests[i]).value,
                                            kwargs(tests[i])))]
            /\ pc' = [pc EXCEPT ![i] = "inflight"]
            /\ UNCHANGED <<results, semaphore>>
       ELSE /\ results' = [results EXCEPT ![i] = NoneResult]
            /\ pc' = [pc EXCEPT ![i] = "done"]
            /\ semaphore' = semaphore + 1
            /\ UNCHANGED <<issued, requests>>
    /\ UNCHANGED <<static, clock, start_time, phase, session, log, idx, passed, failed, ret>>

\* asyncio.sleep(1) of task i is over: the next iteration of the retry loop
Wake(i) ==
    /\ pc[i] = "sleep"
    /\ IF issued[i] \in range(Get(global_config, "retries", 1))
       THEN /\ issued' = [issued EXCEPT ![i] = @ + 1]
            /\ requests' = [requests EXCEPT ![i] =
                              Append(@, session_request(
                                            request_method(tests[i]),
                                            build_url(global_config, tests[i]).value,
                                            kwargs(tests[i])))]
            /\ pc' = [pc EXCEPT ![i] = "inflight"]
            /\ UNCHANGED <<results, semaphore>>
       ELSE /\ results' = [results EXCEPT ![i] = NoneResult]
            /\ pc' = [pc EXCEPT ![i] = "done"]
            /\ semaphore' = semaphore + 1
            /\ UNCHANGED <<issued, requests>>
    /\ UNCHANGED <<static, clock, start_time, phase, session, log, idx, passed, failed, ret>>

\* a gather that returns as soon as one task is done
GatherDone_first_completed ==
    /\ phase = "gather"
    /\ \E i \in Cases : pc[i] = "done"
    /\ session' = "closed"
    /\ phase' = "aggregate"
    /\ idx' = 1
    /\ passed' = 0
    /\ failed' = 0
    /\ UNCHANGED <<static, clock, start_time, requests, semaphore, pc, issued, log, results, ret>>

\* gather returns: every task is done, the session is closed
GatherDone ==
    /\ phase = "gather"
    /\ \A i \in Cases : pc[i] = "done"
    /\ session' = "closed"
    /\ phase' = "aggregate"
    /\ idx' = 1
    /\ passed' = 0
    /\ failed' = 0
    /\ UNCHANGED <<static, clock, start_time, requests, semaphore, pc, issued, log, results, ret>>

\* one iteration of `for result in results`
ProcessResult ==
    /\ phase = "aggregate"
    /\ idx <= NumCases
    /\ LET result == results[idx]
       IN  IF result.kind = "Exception"
           THEN /\ failed' = failed + 1
                /\ idx' = idx + 1
                /\ UNCHANGED <<passed, phase, ret>>
           ELSE IF result.kind = "None"
           THEN /\ phase' = "raised"
                /\ ret' = Raise(AttributeError("'NoneType' object has no attribute 'passed'"))
                /\ UNCHANGED <<passed, failed, idx>>
           ELSE IF result.passed
           THEN /\ passed' = passed + 1
                /\ idx' = idx + 1
                /\ UNCHANGED <<failed, phase, ret>>
           ELSE /\ failed' = failed + 1
                /\ UNCHANGED passed
                /\ IF Get(global_config, "stop-on-fail", FALSE)
                   THEN /\ phase' = "returned"
                        /\ ret' = Return(failed' = 0)
                        /\ idx' = idx
                   ELSE /\ idx' = idx + 1
                        /\ UNCHANGED <<phase, ret>>
    /\ UNCHANGED <<static, clock, start_time, requests, semaphore, session, pc, issued, log, results>>

\* the loop is exhausted: `return failed == 0`
ReturnResult ==
    /\ phase = "aggregate"
    /\ idx > NumCases
    /\ phase' = "returned"
    /\ ret' = Return(failed = 0)
    /\ UNCHANGED <<static, clock, start_time, requests, semaphore, session, pc, issued, log, results, idx, passed, failed>>

Next ==
    \/ RunTestsStart
    \/ \E i \in Cases : Acquire(i)
    \/ \E i \in Cases : \E response \in Responses : Respond(i, response)
    \/ \E i \in Cases : Fail(i)
    \/ \E i \in Cases : Timeout(i)
    \/ \E i \in Cases : Wake(i)
    \/ GatherDone
    \/ ProcessResult
    \/ ReturnResult

Spec == Init /\ [][Next]_vars

\* every enabled step is eventually taken: the event loop runs a ready task,
\* and every request is answered, fails or times out
FairSpec == Spec /\ WF_vars(Next)

\* the batch of a config.yaml that allows two attempts per case and two
\* units at a time: units overlap, and a timed-out attempt is retried
DrainInit ==
    /\ Init
    /\ Get(config_yaml, "retries", 1) = 2
    /\ Get(config_yaml, "concurrent", 10) = 2

\* that batch under the same fairness
DrainSpec == DrainInit /\ [][Next]_vars /\ WF_vars(Next)

\* ------------------------------------------------- run_test under a clock
\* the tests of one document each whose endpoint, method, body, name and
\* expectations are there or not
UnitTests ==
    { ("_source_file" :> <<"t.yaml", 1>>) @@ u @@ r @@ t @@ n @@ b @@ e :
        u \in Optional("url", {<<"http://x", "/", "a">>}),
        r \in Optional("relative-url", {<<"/", "b">>, <<"b">>}),
        t \in Optional("type", {<<"p", "o", "s", "t">>, <<"G", "e", "t">>}),
        n \in Optional("name", {"n"}),
        b \in Optional("body", {"k" :> "v"}),
        e \in Optional("expected", {"status" :> PyInt(200),
                                    "response" :> [type |-> "exact"]}) }

\* what the fake transport answers a single test
UnitResponses ==
    { [status |-> 200, body |-> <<"o", "k">>,
       headers |-> << <<"Content-Type", <<"j">>>> >>],
      [status |-> 500, body |-> <<>>, headers |-> <<>>] }

UnitConfigs ==
    { ("baseUrl" :> base) @@ r :
        base \in {<<"http://h">>, <<"http://h", "/", "api">>,
                  <<"http://h", "/", "api", "/">>},
        r \in Optional("retries", 1 .. MaxRetries) }

\* run_tests has reached gather with a catalog whose first test is any of
\* UnitTests and whose other tests have neither url nor relative-url: their
\* units have already ended with the KeyError, the first is yet to start
UnitInit ==
    /\ config_yaml \in UnitConfigs
    /\ cpu_count = 1
    /\ cli_config = load_config(config_yaml, cpu_count)
    /\ global_config = load_global_config(config_yaml)
    /\ \E test \in UnitTests :
          tests = [i \in Cases |-> IF i = 1 THEN test ELSE TestDoc("none", i)]
    /\ phase = "gather"
    /\ semaphore = SemaphoreValue(global_config)
    /\ session = "open"
    /\ pc = [i \in Cases |-> IF i = 1 THEN "pending" ELSE "done"]
    /\ issued = [i \in Cases |-> 0]
    /\ log = [i \in Cases |-> <<>>]
    /\ results = [i \in Cases |->
                    IF i = 1 THEN NoResult
                    ELSE ExceptionResult(build_url(global_config, tests[i]).exc)]
    /\ idx = 0
    /\ passed = 0
    /\ failed = 0
    /\ ret = NotReturned
    /\ NotStarted
    /\ v_pc = "off"
    /\ v_expected = EmptyDict
    /\ v_actual = EmptyDict
    /\ v_out = NotReturned
    /\ ExtensionsLoaded(global_config)
    /\ LoadingOff

\* time passes while a unit waits for its answer or pauses: loop.time() is
\* monotonic
Tick ==
    /\ \E i \in Cases : pc[i] \in {"inflight", "sleep"}
    /\ clock < MaxClock
    /\ clock' = clock + 1
    /\ UNCHANGED <<static, start_time, requests, phase, semaphore, session, pc,
                   issued, log, results, idx, passed, failed, ret>>

UnitNext ==
    \/ \E i \in Cases : Acquire(i)
    \/ \E i \in Cases : \E response \in UnitResponses : Respond(i, response)
    \/ \E i \in Cases : Fail(i)
    \/ \E i \in Cases : Timeout(i)
    \/ \E i \in Cases : Wake(i)
    \/ Tick

UnitSpec == UnitInit /\ [][UnitNext]_vars

\* ------------------------------------------- validate_response on its own
\* the dict MultipleExtension.process produces
Multiple(values) == PyDict([type |-> "multiple", values |-> values])

StatusExpectations ==
    { PyInt(200), PyInt(404), PyStr(<<"2", "0", "0">>),
      Multiple(<<200, 404>>), Multiple(<<404>>), Multiple(<<>>),
      PyDict([type |-> "range", values |-> <<200>>]) }

ContentTypeExpectations ==
    { PyStr(<<"j">>), PyStr(<<"j", "s">>), Multiple(<< <<"t">>, <<"j", "s">> >>) }

CorsExpectations == { <<"*">>, <<"o">> }

ResponseExpectations ==
    { [type |-> "exact", value |-> <<"o", "k">>],
      [value |-> <<"o", "k">>],
      [type |-> "contains", value |-> <<"k">>],
      [type |-> "regex", value |-> <<"^", "k">>],
      [type |-> "empty"],
      [type |-> "exact"],
      [type |-> "json", value |-> <<"o">>] }

ActualStatuses == {200, 404, 500}

\* the headers a server may send
ResponseHeaders ==
    { <<>>,
      << <<"Content-Type", <<"j", "s">>>> >>,
      << <<"content-type", <<"t">>>>, <<"access-control-allow-origin", <<"*">>>> >>,
      << <<"CONTENT-TYPE", <<"J", "s">>>>, <<"access-control-allow-origin", <<"o", ",", "p">>>> >>,
      << <<"Access-Control-Allow-Origin", <<"*">>>> >>,
      << <<"Content-Type", <<"j">>>>, <<"content-type", <<"j", "s">>>>,
         <<"Access-Control-Allow-Origin", <<"o">>>> >> }

\* the headers run_test captures
ActualHeaders == { dict(headers) : headers \in ResponseHeaders }

ActualBodies ==
    { <<>>, <<" ">>, <<"o", "k">>, <<" ", "o", "k", "\n">>, <<"o", "\n", "k">> }

Expectations ==
    { st @@ ct @@ co @@ re :
        st \in Optional("status", StatusExpectations),
        ct \in Optional("content-type", ContentTypeExpectations),
        co \in Optional("cors", CorsExpectations),
        re \in Optional("response", ResponseExpectations) }

Actuals ==
    [status : ActualStatuses, body : ActualBodies, headers : ActualHeaders]

ValConfigs ==
    { ("baseUrl" :> <<"http://h">>) @@ t : t \in Optional("trim", BOOLEAN) }

ValInit ==
    /\ config_yaml \in ValConfigs
    /\ cpu_count = 1
    /\ cli_config = load_config(config_yaml, cpu_count)
    /\ global_config = load_global_config(config_yaml)
    /\ tests = <<>>
    /\ phase = "off"
    /\ semaphore = 0
    /\ session = "none"
    /\ pc = [i \in Cases |-> "done"]
    /\ issued = [i \in Cases |-> 0]
    /\ log = [i \in Cases |-> <<>>]
    /\ results = [i \in Cases |-> NoResult]
    /\ idx = 0
    /\ passed = 0
    /\ failed = 0
    /\ ret = NotReturned
    /\ NotStarted
    /\ v_pc = "call"
    /\ v_expected \in Expectations
    /\ v_actual \in Actuals
    /\ v_out = NotReturned
    /\ ExtensionsLoaded(global_config)
    /\ LoadingOff

\* the call validate_response(expected, actual)
Validate ==
    /\ v_pc = "call"
    /\ v_out' = validate_response(global_config, v_expected, v_actual)
    /\ v_pc' = "done"
    /\ UNCHANGED <<config_yaml, cpu_count, cli_config, global_config, tests,
                   runvars, extvars, loadvars, v_expected, v_actual>>

ValNext == Validate

ValSpec == ValInit /\ [][ValNext]_vars

\* ------------------------------------------ the extension system on its own
\* the modules test/extensions may hold and what each registers with
\* @extension: the example module, and one that reuses a core name
UserModules == {"extension_example.py", "override.py", "to_int.py"}

ModuleExtensions(file) ==
    CASE file = "extension_example.py" -> <<"test-extension">> :> Extension("TestExtension")
      [] file = "override.py" -> <<"multiple">> :> Extension("TestExtension")
      [] file = "to_int.py" -> <<"int">> :> Extension("IntExtension")

\* the names resolve_extension is asked for
ExtensionNames == { <<"multiple">>, <<"test-extension">>, <<"missing">> }

\* the key: value entries test documents are made of
ItemPool ==
    { <<Key("status"), PyInt(200)>>,
      <<Tagged("status", "multiple"), PyStr(<<"2", "0", "0", " ", "|", " ", "4", "0", "4">>)>>,
      <<Tagged("content-type", "multiple"), PyStr(<<"j", "|", "t">>)>>,
      <<Tagged("headers", "test-extension"), PyStr(<<"v">>)>>,
      <<Tagged("body", "encoded_values"), PyDict(<< <<Key("k"), PyStr(<<"a">>)>>,
                                                   <<Key("n"), PyInt(7)>> >>)>>,
      <<PyStr(<<"_", "note", "<", "multiple", ">">>), PyStr(<<"a", "|", "b">>)>>,
      <<PyInt(1), PyStr(<<"a">>)>>,
      <<Key("tags"), PyList(<< PyStr(<<"a">>),
                               PyDict(<< <<Tagged("status", "multiple"),
                                           PyStr(<<"1", "|", "2">>)>> >>),
                               PyList(<< PyDict(<< <<Tagged("status", "multiple"),
                                                     PyStr(<<"1", "|", "2">>)>> >>) >>) >>)>>,
      <<PyStr(<<"a", "<", "b">>), PyStr(<<"x">>)>>,
      <<Tagged("status", "missing"), PyStr(<<"2", "0", "0", "|", "4", "0", "4">>)>>,
      <<PyStr(<<"status", "<", "multiple", ">", "<", "multiple", ">">>),
        PyStr(<<"5", "|", "6">>)>>,
      <<Tagged("body", "missing"), PyDict(<< <<Key("k"), PyStr(<<"a">>)>> >>)>>,
      <<Tagged("retries", "int"), PyStr(<<"x">>)>>,
      <<Key("expected"),
        PyDict(<< <<Tagged("status", "multiple"),
                    PyStr(<<"2", "0", "0", " ", "|", " ", "4", "0", "4">>)>> >>)>>,
      <<Key("expected"),
        PyDict(<< <<Key("status"), PyInt(200)>>,
                  <<Internal("note"), PyStr(<<"n">>)>>,
                  <<Key("codes"), PyList(<< PyInt(1), PyDict(<< <<Key("k"), PyStr(<<"a">>)>> >>),
                                            PyList(<< PyStr(<<"a">>) >>) >>)>> >>)>> }

\* the maps of at most MaxItems entries with distinct keys
Blocks ==
    UNION { { b \in [1 .. n -> ItemPool] :
                \A i \in 1 .. n : \A j \in 1 .. n : b[i][1] = b[j][1] => i = j }
            : n \in 0 .. MaxItems }

\* the test documents
Documents == { PyDict(b) : b \in Blocks }

ExtConfigs ==
    { ("baseUrl" :> <<"http://h">>) @@ e :
        e \in Optional("extension-precedence", {"core", "non-core"}) }

\* EndpointTester.__init__ after it set the precedence of its new loader
ExtInit ==
    /\ config_yaml \in ExtConfigs
    /\ cpu_count = 1
    /\ cli_config = load_config(config_yaml, cpu_count)
    /\ global_config = load_global_config(config_yaml)
    /\ tests = <<>>
    /\ phase = "off"
    /\ semaphore = 0
    /\ session = "none"
    /\ pc = [i \in Cases |-> "done"]
    /\ issued = [i \in Cases |-> 0]
    /\ log = [i \in Cases |-> <<>>]
    /\ results = [i \in Cases |-> NoResult]
    /\ idx = 0
    /\ passed = 0
    /\ failed = 0
    /\ ret = NotReturned
    /\ NotStarted
    /\ v_pc = "off"
    /\ v_expected = EmptyDict
    /\ v_actual = EmptyDict
    /\ v_out = NotReturned
    /\ extension_files \in SUBSET UserModules
    /\ USER_EXTENSIONS = EmptyDict
    /\ core_extensions = CORE_EXTENSIONS
    /\ user_extensions = EmptyDict
    /\ precedence = Get(global_config, "extension-precedence", "non-core")
    /\ e_pc = "loading"
    /\ resolved = <<>>
    /\ p_pc = "call"
    /\ p_config \in Documents
    /\ processed = NotReturned
    /\ calls = <<>>
    /\ LoadingOff

\* one round of the loop of load_user_extensions: the module is imported,
\* its decorators register, and the loader copies the registry
ImportModule(file) ==
    /\ e_pc = "loading"
    /\ file \in extension_files
    /\ extension_files' = extension_files \ {file}
    /\ USER_EXTENSIONS' = update(USER_EXTENSIONS, ModuleExtensions(file))
    /\ user_extensions' = update(user_extensions, USER_EXTENSIONS')
    /\ UNCHANGED <<config_yaml, cpu_count, cli_config, global_config, tests,
                   runvars, valvars, loadvars, calls, core_extensions, precedence, e_pc,
                   resolved, p_pc, p_config, processed>>

\* load_user_extensions returns
LoadUserExtensionsDone ==
    /\ e_pc = "loading"
    /\ extension_files = {}
    /\ e_pc' = "loaded"
    /\ UNCHANGED <<config_yaml, cpu_count, cli_config, global_config, tests,
                   runvars, valvars, loadvars, calls, extension_files, registry,
                   resolved, p_pc, p_config, processed>>

\* a resolution that moves what it found into the user namespace
ResolveExtension_caching(extension_name) ==
    LET extension == resolve_extension(
                         Loader(core_extensions, user_extensions, precedence),
                         extension_name)
    IN  /\ e_pc = "loaded"
        /\ p_pc = "done"
        /\ Len(resolved) < MaxResolves
        /\ resolved' = Append(resolved, [name |-> extension_name, out |-> extension])
        /\ user_extensions' = IF bool(extension)
                              THEN update(user_extensions, extension_name :> extension)
                              ELSE user_extensions
        /\ UNCHANGED <<config_yaml, cpu_count, cli_config, global_config, tests,
                       runvars, valvars, loadvars, calls, extension_files, USER_EXTENSIONS,
                       core_extensions, precedence, e_pc, p_pc, p_config, processed>>

\* a call resolve_extension(extension_name) on the loader of a constructed
\* EndpointTester
ResolveExtension(extension_name) ==
    LET extension == resolve_extension(
                         Loader(core_extensions, user_extensions, precedence),
                         extension_name)
    IN  /\ e_pc = "loaded"
        /\ p_pc = "done"
        /\ Len(resolved) < MaxResolves
        /\ resolved' = Append(resolved, [name |-> extension_name, out |-> extension])
        /\ UNCHANGED <<config_yaml, cpu_count, cli_config, global_config, tests,
                       runvars, valvars, loadvars, calls, extension_files, registry, e_pc,
                       p_pc, p_config, processed>>

\* the call process_test_with_extensions(test_config) of load_all_tests
ProcessTest ==
    /\ e_pc = "loaded"
    /\ p_pc = "call"
    /\ processed' = process_test_with_extensions(
                        Loader(core_extensions, user_extensions, precedence), p_config)
    /\ calls' = test_calls(Loader(core_extensions, user_extensions, precedence), p_config)
    /\ p_pc' = "done"
    /\ UNCHANGED <<config_yaml, cpu_count, cli_config, global_config, tests,
                   runvars, valvars, loadvars, extension_files, registry, e_pc,
                   resolved, p_config>>

\* the value of expected's status as validate_response reads it: an int
\* or str as it is, a dict by its type and the ints among its values (a
\* response status, an int, equals no str of the list)
status_expectation(value) ==
    IF value.py = "dict"
    THEN LET type == ItemGet(value.val, Key("type"), PyStr(<<None>>))
             values == ItemGet(value.val, Key("values"), PyList(<<>>))
             ints == SelectSeq(values.val, LAMBDA v : v.py = "int")
         IN  PyDict([type |-> IF type.py = "str" /\ Len(type.val) = 1
                              THEN type.val[1] ELSE None,
                     values |-> [j \in 1 .. Len(ints) |-> ints[j].val]])
    ELSE value

\* test.get('expected', {}) of a processed document
expected_of(test) ==
    IF HasKey(test.val, Key("expected"))
    THEN ItemGet(test.val, Key("expected"), PyDict(<<>>))
    ELSE PyDict(<<>>)

\* run_test validates a response with the given status against a processed
\* document whose expected block holds at most a status
ValidateProcessed(status) ==
    LET expected == expected_of(processed.value)
        actual == [status |-> status, body |-> <<>>, headers |-> dict(<<>>)]
    IN  /\ e_pc = "loaded"
        /\ p_pc = "done"
        /\ resolved = <<>>
        /\ processed.kind = "return"
        /\ HasKey(processed.value.val, Key("expected"))
        /\ expected.py = "dict"
        /\ \A name \in {"content-type", "cors", "response"} :
              ~HasKey(expected.val, Key(name))
        /\ v_expected' = IF HasKey(expected.val, Key("status"))
                         THEN "status" :> status_expectation(
                                  ItemGet(expected.val, Key("status"), PyInt(0)))
                         ELSE EmptyDict
        /\ v_actual' = actual
        /\ v_out' = validate_response(global_config, v_expected', actual)
        /\ v_pc' = "done"
        /\ p_pc' = "validated"
        /\ UNCHANGED <<config_yaml, cpu_count, cli_config, global_config, tests,
                       runvars, loadvars, extension_files, registry, e_pc,
                       resolved, p_config, processed, calls>>

ExtNext ==
    \/ \E file \in UserModules : ImportModule(file)
    \/ LoadUserExtensionsDone
    \/ \E extension_name \in ExtensionNames : ResolveExtension(extension_name)
    \/ ProcessTest
    \/ \E status \in ActualStatuses : ValidateProcessed(status)

ExtSpec == ExtInit /\ [][ExtNext]_vars


\* -------------------------------------------------- load_all_tests on its own
\* the names of the files of the test directory
FileNames == { <<"a", ".yaml">>, <<"a", ".yaml", "#", "1", ".yaml">> }

\* the documents a file may hold
LoadDocuments ==
    { PyDict(<< <<Key("url"), PyStr(<<"http://h/a">>)>>,
                <<Key("expected"),
                  PyDict(<< <<Tagged("status", "multiple"),
                              PyStr(<<"2", "0", "0", " ", "|", " ", "4", "0", "4">>)>> >>)>> >>),
      PyDict(<< <<Key("url"), PyStr(<<"http://h/a">>)>>,
                <<PyInt(1), PyStr(<<"a">>)>> >>),
      PyDict(<< <<Key("name"), PyStr(<<"n">>)>>,
                <<Internal("source_file"), PyStr(<<"mine">>)>> >>),
      PyDict(<< <<Key("relative-url"), PyStr(<<"/a">>)>>,
                <<Tagged("retries", "int"), PyStr(<<"x">>)>>,
                <<Tagged("content-type", "multiple"), PyStr(<<"j", "|", "t">>)>> >>),
      PyStr(<<"text">>) }

FileContents ==
    { Unreadable, Malformed }
        \cup UNION { { YamlFile(d) : d \in [1 .. n -> LoadDocuments] } : n \in 0 .. MaxDocs }

Directories ==
    { [exists |-> FALSE, files |-> EmptyDict] }
        \cup { [exists |-> TRUE, files |-> f] :
                 f \in UNION { [S -> FileContents] : S \in SUBSET FileNames } }

\* EndpointTester.__init__ before it calls load_all_tests
LoadInit ==
    /\ config_yaml = ("baseUrl" :> <<"http://h">>)
    /\ cpu_count = 1
    /\ cli_config = load_config(config_yaml, cpu_count)
    /\ global_config = load_global_config(config_yaml)
    /\ tests = <<>>
    /\ phase = "off"
    /\ semaphore = 0
    /\ session = "none"
    /\ pc = [i \in Cases |-> "done"]
    /\ issued = [i \in Cases |-> 0]
    /\ log = [i \in Cases |-> <<>>]
    /\ results = [i \in Cases |-> NoResult]
    /\ idx = 0
    /\ passed = 0
    /\ failed = 0
    /\ ret = NotReturned
    /\ NotStarted
    /\ v_pc = "off"
    /\ v_expected = EmptyDict
    /\ v_actual = EmptyDict
    /\ v_out = NotReturned
    /\ extension_files = {}
    /\ USER_EXTENSIONS \in {EmptyDict, ModuleExtensions("to_int.py")}
    /\ core_extensions = CORE_EXTENSIONS
    /\ user_extensions = USER_EXTENSIONS
    /\ precedence = Get(global_config, "extension-precedence", "non-core")
    /\ e_pc = "loaded"
    /\ resolved = <<>>
    /\ p_pc = "off"
    /\ p_config = PyDict(<<>>)
    /\ processed = NotReturned
    /\ calls = <<>>
    /\ directory \in Directories
    /\ yaml_files = {}
    /\ l_pc = "call"
    /\ origin = <<>>

\* load_all_tests up to its loop: without the directory it returns the
\* empty list, else glob lists the files
LoadAllTestsStart ==
    /\ l_pc = "call"
    /\ IF directory.exists
       THEN /\ yaml_files' = DOMAIN directory.files
            /\ l_pc' = "loading"
       ELSE /\ yaml_files' = {}
            /\ l_pc' = "returned"
    /\ UNCHANGED <<config_yaml, cpu_count, cli_config, global_config, tests,
                   runvars, valvars, extvars, directory, origin>>

\* one round of the loop over configs_dir.glob("*.yaml"), in the order
\* the file system lists the files
LoadFile(yaml_file) ==
    LET self == Loader(core_extensions, user_extensions, precedence)
        catalog == load_file(self, yaml_file, directory.files[yaml_file],
                             Catalog(tests, origin))
    IN  /\ l_pc = "loading"
        /\ yaml_file \in yaml_files
        /\ tests' = catalog.tests
        /\ origin' = catalog.origin
        /\ yaml_files' = yaml_files \ {yaml_file}
        /\ UNCHANGED <<config_yaml, cpu_count, cli_config, global_config,
                       runvars, valvars, extvars, directory, l_pc>>

\* `return tests`
LoadAllTestsReturn ==
    /\ l_pc = "loading"
    /\ yaml_files = {}
    /\ l_pc' = "returned"
    /\ UNCHANGED <<config_yaml, cpu_count, cli_config, global_config, tests,
                   runvars, valvars, extvars, directory, yaml_files, origin>>

LoadNext ==
    \/ LoadAllTestsStart
    \/ \E yaml_file \in FileNames : LoadFile(yaml_file)
    \/ LoadAllTestsReturn

LoadSpec == LoadInit /\ [][LoadNext]_vars

\* =================================================================== claims
\* the tasks that are between entering and leaving `async with semaphore`
Holding == {i \in Cases : pc[i] \in {"inflight", "sleep"}}

\* run_tests created the admission gate
GateExists == phase \in {"gather", "aggregate", "returned"} \/ session # "none"

Retries == Get(global_config, "retries", 1)
StopOnFail == Get(global_config, "stop-on-fail", FALSE)
HasUrl(i) == build_url(global_config, tests[i]).kind = "return"
Last(seq) == seq[Len(seq)]
AllTimedOut(i) == \A k \in 1 .. Len(log[i]) : log[i][k] = "timeout"
IsFailure(r) == r.kind = "TestResult" /\ ~r.passed

\* C1: while the gate exists, the number of cases holding it (request in
\* flight or backoff pause) never exceeds the configured `concurrent` value
\* (10 when the key is absent).
C1_GateBound ==
    GateExists => Cardinality(Holding) <= SemaphoreValue(global_config)

\* the gate of size 2 is full, one holder is in its backoff pause and a
\* third case waits
C1_Witness ==
    /\ SemaphoreValue(global_config) = 2
    /\ Cardinality(Holding) = 2
    /\ \E i \in Cases : pc[i] = "sleep"
    /\ \E i \in Cases : pc[i] = "pending"

\* C2: for retries = R >= 0, a case with a url whose attempts all timed out
\* has made exactly R attempts and ended as a failed TestResult carrying the
\* timeout.
C2_RetryBound ==
    \A i \in Cases :
        (Retries >= 0 /\ pc[i] = "done" /\ HasUrl(i) /\ AllTimedOut(i)) =>
            /\ issued[i] = Retries
            /\ results[i].kind = "TestResult"
            /\ ~results[i].passed
            /\ results[i].error = str(TimeoutError)

\* C3: with stop-on-fail set, once a case has finished with a failing
\* result, no case that has not started is let through the gate to issue
\* its request.
C3_NoAdmissionAfterFailure ==
    [][ (StopOnFail /\ \E j \in Cases : pc[j] = "done" /\ IsFailure(results[j]))
          => \A i \in Cases : pc[i] = "pending" => pc'[i] # "inflight" ]_vars

\* C4: when `concurrent` is 0 or absent in config.yaml, the gate run_tests
\* creates has as many permits as get_cpu_count reports.
C4_GateAutoDetected ==
    (phase = "gather" /\ Get(config_yaml, "concurrent", 0) = 0) =>
        semaphore + Cardinality(Holding) = get_cpu_count(cpu_count)

\* C5: whatever the global configuration, run_tests eventually comes to an
\* end (and so no case waits for the gate forever); returning is one way
\* of ending, so this is implied by "run_tests eventually returns".
C5_RunTestsEnds == <>(phase \in {"returned", "raised"})

\* C6: without stop-on-fail, once the batch has run and run_tests is over,
\* passed + failed is the number of submitted cases.
C6_EveryCaseCounted ==
    (~StopOnFail /\ session = "closed" /\ phase \in {"returned", "raised"}) =>
        passed + failed = NumCases

\* C7 as stated: a case whose attempt failed with something other than a
\* timeout has made exactly one attempt.
C7_ExactlyOneAttempt ==
    \A i \in Cases :
        (log[i] # <<>> /\ Last(log[i]) = "error") => issued[i] = 1

\* a failed result with error set and actual empty
IsErrorResult(r, e) ==
    /\ r.kind = "TestResult"
    /\ ~r.passed
    /\ r.error = str(e)
    /\ r.error # None
    /\ r.actual = EmptyDict

\* C7 as amended: an attempt that fails with something other than a timeout
\* is the last attempt of its case (only timed-out attempts precede it, at
\* most retries - 1 of them), the case ends as a failed TestResult with error
\* set and actual empty, and the step changes no other case.
C7_FailureIsFinal ==
    /\ [](\A i \in Cases :
            (\E k \in 1 .. Len(log[i]) : log[i][k] = "error") =>
                /\ pc[i] = "done"
                /\ Last(log[i]) = "error"
                /\ \A k \in 1 .. (Len(log[i]) - 1) : log[i][k] = "timeout"
                /\ issued[i] = Len(log[i])
                /\ issued[i] <= Retries
                /\ IsErrorResult(results[i], ClientError))
    /\ [][\A i \in Cases :
            (log'[i] # log[i] /\ Last(log'[i]) = "error") =>
                \A j \in Cases \ {i} :
                    /\ pc'[j] = pc[j]
                    /\ issued'[j] = issued[j]
                    /\ log'[j] = log[j]
                    /\ results'[j] = results[j]]_vars

\* with retries = 2 the first attempt timed out and the second one failed
\* otherwise, while another case is still in flight
C7_Witness ==
    \E i \in Cases :
        /\ log[i] = <<"timeout", "error">>
        /\ pc[i] = "done"
        /\ \E j \in Cases \ {i} : pc[j] = "inflight"

\* C8: a case with a url that has left run_test has a TestResult.
C8_AlwaysATestResult ==
    \A i \in Cases :
        (pc[i] = "done" /\ HasUrl(i)) => results[i].kind = "TestResult"

\* the rules of validate_response, each on the value of its field
StatusRule(want, actual) ==
    IF want.py = "dict" /\ Get(want.val, "type", None) = "multiple"
    THEN \E j \in 1 .. Len(want.val["values"]) : want.val["values"][j] = actual["status"]
    ELSE want.py = "int" /\ want.val = actual["status"]

ContentTypeRule(want, actual) ==
    LET got == actual_content_type(actual["headers"])
    IN  IF want.py = "dict" /\ Get(want.val, "type", None) = "multiple"
        THEN \E j \in 1 .. Len(want.val["values"]) : startswith(got, want.val["values"][j])
        ELSE startswith(got, want.val)

CorsRule(want, actual) ==
    LET got == ItemGet(actual["headers"], "access-control-allow-origin", <<>>)
    IN  IF want = <<"*">> THEN got = <<"*">> ELSE Contains(want, got)

ResponseRule(config, want, actual) ==
    LET body == trimmed_body(config, actual)
        type == Get(want, "type", "exact")
    IN  /\ type \in {"exact", "regex", "contains"} => "value" \in DOMAIN want
        /\ type = "exact" => body = want["value"]
        /\ type = "regex" => re_search(want["value"], body)
        /\ type = "contains" => Contains(want["value"], body)
        /\ type = "empty" => body = <<>>

RulePasses(field, config, expected, actual) ==
    CASE field = "status" -> StatusRule(expected[field], actual)
      [] field = "content-type" -> ContentTypeRule(expected[field], actual)
      [] field = "cors" -> CorsRule(expected[field], actual)
      [] field = "response" -> ResponseRule(config, expected[field], actual)
      [] OTHER -> TRUE

ReturnedTrue(out) == out.kind = "return" /\ out.value

\* C9: validate_response returns true exactly when every rule whose field
\* is present in expected passes; with no field present it returns true.
C9_AllPresentRulesPass ==
    v_pc = "done" =>
        /\ ReturnedTrue(v_out) <=>
              \A field \in DOMAIN v_expected :
                  RulePasses(field, global_config, v_expected, v_actual)
        /\ DOMAIN v_expected = {} => ReturnedTrue(v_out)

\* all four fields are present and the response passes each rule
C9_Witness ==
    /\ v_pc = "done"
    /\ DOMAIN v_expected = {"status", "content-type", "cors", "response"}
    /\ ReturnedTrue(v_out)

\* C10: a scalar status expectation passes iff the actual status equals it,
\* a {type: multiple, values} expectation iff the actual status is one of the
\* values: when the rule does not pass validation returns false, and with
\* only `status` expected validation returns true iff the rule passes.
C10_StatusRule ==
    (v_pc = "done" /\ "status" \in DOMAIN v_expected) =>
        LET want == v_expected["status"]
            multi == want.py = "dict" /\ Get(want.val, "type", None) = "multiple"
            scalar == want.py \in {"int", "str"}
            rule == IF multi
                    THEN \E j \in 1 .. Len(want.val["values"]) :
                            want.val["values"][j] = v_actual["status"]
                    ELSE want.py = "int" /\ want.val = v_actual["status"]
        IN  (multi \/ scalar) =>
                /\ ~rule => (v_out.kind = "return" /\ ~v_out.value)
                /\ DOMAIN v_expected = {"status"} => (ReturnedTrue(v_out) <=> rule)

\* status 404 is accepted by {type: multiple, values: [200, 404]}, the
\* second of two listed values
C10_Witness ==
    /\ v_pc = "done"
    /\ v_expected = ("status" :> Multiple(<<200, 404>>))
    /\ v_actual["status"] = 404
    /\ ReturnedTrue(v_out)

ReturnedFalse(out) == out.kind = "return" /\ ~out.value

\* p is a prefix of s, letter case included
IsPrefix(p, s) == \E n \in 0 .. Len(s) : SubSeq(s, 1, n) = p

\* the spellings of a header name in the letter cases servers use
Spellings(name) ==
    CASE name = "content-type" -> {"content-type", "Content-Type", "CONTENT-TYPE"}
      [] name = "access-control-allow-origin" ->
            {"access-control-allow-origin", "Access-Control-Allow-Origin"}
      [] OTHER -> {name}

\* the value of the first header with one of the names, '' without one
HeaderValue(headers, names) ==
    LET hits == {j \in 1 .. Len(headers) : headers[j][1] \in names}
    IN  IF hits = {} THEN <<>>
        ELSE headers[CHOOSE j \in hits : \A h \in hits : j <= h][2]

\* C11: the content-type header is found whatever the letter case of its
\* name and is '' when missing; a scalar expectation passes iff the actual
\* value starts with it (letter case included), a multi-value expectation
\* iff the actual value starts with one of the listed values. When the rule
\* does not pass validation returns false, and with only `content-type`
\* expected validation returns true iff the rule passes.
C11_ContentTypeRule ==
    (v_pc = "done" /\ "content-type" \in DOMAIN v_expected) =>
        LET want == v_expected["content-type"]
            got == HeaderValue(v_actual["headers"], Spellings("content-type"))
            multi == want.py = "dict" /\ Get(want.val, "type", None) = "multiple"
            rule == IF multi
                    THEN \E j \in 1 .. Len(want.val["values"]) :
                            IsPrefix(want.val["values"][j], got)
                    ELSE IsPrefix(want.val, got)
        IN  /\ ~rule => ReturnedFalse(v_out)
            /\ DOMAIN v_expected = {"content-type"} => (ReturnedTrue(v_out) <=> rule)

\* the server named the header Content-Type and its value starts with, but
\* is longer than, the scalar expectation
C11_Witness ==
    /\ v_pc = "done"
    /\ v_expected = ("content-type" :> PyStr(<<"j">>))
    /\ v_actual["headers"] = << <<"Content-Type", <<"j", "s">>>> >>
    /\ ReturnedTrue(v_out)

\* C12: with the value stored under access-control-allow-origin, '' when
\* there is none, the expectation * passes iff that value is exactly *, any
\* other expectation iff it is a substring of that value. When the rule does
\* not pass validation returns false, and with only `cors` expected
\* validation returns true iff the rule passes.
C12_CorsRule ==
    (v_pc = "done" /\ "cors" \in DOMAIN v_expected) =>
        LET want == v_expected["cors"]
            got == HeaderValue(v_actual["headers"], {"access-control-allow-origin"})
            rule == IF want = <<"*">>
                    THEN got = <<"*">>
                    ELSE \E k \in 0 .. Len(got) : \E n \in 0 .. Len(got) :
                            SubSeq(got, k + 1, n) = want
        IN  /\ ~rule => ReturnedFalse(v_out)
            /\ DOMAIN v_expected = {"cors"} => (ReturnedTrue(v_out) <=> rule)

\* the expected origin is one entry of a longer header value
C12_Witness ==
    /\ v_pc = "done"
    /\ v_expected = ("cors" :> <<"o">>)
    /\ HeaderValue(v_actual["headers"], {"access-control-allow-origin"}) = <<"o", ",", "p">>
    /\ ReturnedTrue(v_out)

\* C13: the CORS rule reads the allow-origin header whatever letter case
\* the server used for its name: with only `cors` expected, validation
\* returns true iff the rule passes on the value of the header found under
\* any spelling of access-control-allow-origin.
C13_CorsHeaderAnyCase ==
    (v_pc = "done" /\ DOMAIN v_expected = {"cors"}) =>
        LET want == v_expected["cors"]
            got == HeaderValue(v_actual["headers"], Spellings("access-control-allow-origin"))
            rule == IF want = <<"*">> THEN got = <<"*">> ELSE Contains(want, got)
        IN  ReturnedTrue(v_out) <=> rule

\* the body rule on the body it compares
BodyPasses(want, body) ==
    CASE want["type"] = "exact" -> body = want["value"]
      [] want["type"] = "contains" ->
            \E k \in 0 .. Len(body) : \E n \in 0 .. Len(body) :
                SubSeq(body, k + 1, n) = want["value"]
      [] want["type"] = "empty" -> body = <<>>
      [] want["type"] = "regex" -> re_search(want["value"], body)

\* a body expectation of one of the four types, with the value it needs
WellFormed(want) ==
    /\ "type" \in DOMAIN want
    /\ want["type"] \in {"exact", "contains", "empty", "regex"}
    /\ want["type"] # "empty" => "value" \in DOMAIN want

\* C14: an exact expectation passes iff the (possibly trimmed) body equals
\* the value, contains iff the value is a substring of the body, empty iff
\* the body is the empty string, regex iff the pattern matches somewhere in
\* the body. When the rule does not pass validation returns false, and with
\* only `response` expected validation returns true iff the rule passes.
C14_BodyRule ==
    (v_pc = "done" /\ "response" \in DOMAIN v_expected
                   /\ WellFormed(v_expected["response"])) =>
        LET rule == BodyPasses(v_expected["response"],
                               trimmed_body(global_config, v_actual))
        IN  /\ ~rule => ReturnedFalse(v_out)
            /\ DOMAIN v_expected = {"response"} => (ReturnedTrue(v_out) <=> rule)

\* the value is a proper substring at the end of a two-line body
C14_Witness ==
    /\ v_pc = "done"
    /\ v_expected = ("response" :> [type |-> "contains", value |-> <<"k">>])
    /\ v_actual["body"] = <<"o", "\n", "k">>
    /\ ReturnedTrue(v_out)

\* the body without its leading and trailing whitespace
Stripped(body) ==
    LET ink == {j \in 1 .. Len(body) : body[j] \notin Whitespace}
    IN  IF ink = {} THEN <<>>
        ELSE SubSeq(body, CHOOSE j \in ink : \A h \in ink : j <= h,
                          CHOOSE j \in ink : \A h \in ink : h <= j)

TrimOn == "trim" \notin DOMAIN global_config \/ global_config["trim"]

\* C15: when `trim` is true or absent the body rule compares the body
\* without its leading and trailing whitespace, when `trim` is false the
\* body as received; so a whitespace-only body passes an `empty`
\* expectation with trimming on and fails it with trimming off.
C15_Trim ==
    (v_pc = "done" /\ DOMAIN v_expected = {"response"}
                   /\ WellFormed(v_expected["response"])) =>
        LET want == v_expected["response"]
            body == v_actual["body"]
            compared == IF TrimOn THEN Stripped(body) ELSE body
        IN  /\ ReturnedTrue(v_out) <=> BodyPasses(want, compared)
            /\ (want["type"] = "empty" /\ body # <<>>
                  /\ \A j \in 1 .. Len(body) : body[j] \in Whitespace) =>
                    (ReturnedTrue(v_out) <=> TrimOn)

\* `trim` is absent and a body of one blank passes the `empty` expectation
C15_Witness ==
    /\ v_pc = "done"
    /\ "trim" \notin DOMAIN global_config
    /\ v_expected = ("response" :> [type |-> "empty"])
    /\ v_actual["body"] = <<" ">>
    /\ ReturnedTrue(v_out)

\* the loader as the state holds it
TheLoader == Loader(core_extensions, user_extensions, precedence)

\* C16: resolve_extension follows the precedence: for a name in both
\* namespaces it returns the user extension under `non-core` (the default)
\* and the core one under `core`; for a name in one namespace only, that
\* extension under either precedence; for a name in neither, None.
C16_Precedence ==
    \A k \in 1 .. Len(resolved) :
        LET name == resolved[k].name
            out == resolved[k].out
            core == name \in DOMAIN core_extensions
            user == name \in DOMAIN user_extensions
        IN  /\ (core /\ user /\ precedence = "non-core") => out = user_extensions[name]
            /\ (core /\ user /\ precedence = "core") => out = core_extensions[name]
            /\ (core /\ ~user) => out = core_extensions[name]
            /\ (user /\ ~core) => out = user_extensions[name]
            /\ (~core /\ ~user) => out = NoExtension
            /\ "extension-precedence" \notin DOMAIN config_yaml => precedence = "non-core"

\* `multiple` is registered by the package and by a user module, the
\* configuration says `core`, and the core extension was returned
C16_Witness ==
    /\ resolved # <<>>
    /\ Last(resolved).name = <<"multiple">>
    /\ <<"multiple">> \in DOMAIN user_extensions
    /\ precedence = "core"
    /\ Last(resolved).out = Extension("MultipleExtension")
    /\ user_extensions[<<"multiple">>] # Last(resolved).out

\* C17: calls of resolve_extension with the same name return the same
\* extension, and a call changes neither registry mapping nor the
\* precedence.
C17_ResolveIsStable ==
    /\ [](\A i \in 1 .. Len(resolved) : \A j \in 1 .. Len(resolved) :
            resolved[i].name = resolved[j].name => resolved[i].out = resolved[j].out)
    /\ [][resolved' # resolved => registry' = registry]_vars

\* `multiple`, registered in both namespaces, was resolved twice
C17_Witness ==
    /\ Len(resolved) = 2
    /\ resolved[1].name = <<"multiple">>
    /\ resolved[2].name = <<"multiple">>
    /\ <<"multiple">> \in DOMAIN user_extensions
    /\ bool(resolved[2].out)

\* the key carries a reference to an extension: base<name>
IsTaggedKey(key) ==
    /\ key.py = "str"
    /\ key.val # <<>>
    /\ Last(key.val) = ">"
    /\ \E j \in 1 .. Len(key.val) : key.val[j] = "<"

\* some key of the value, at any depth, carries a reference
RECURSIVE HasTaggedKey(_)
HasTaggedKey(value) ==
    CASE value.py = "dict" ->
            \E j \in 1 .. Len(value.val) :
                IsTaggedKey(value.val[j][1]) \/ HasTaggedKey(value.val[j][2])
      [] value.py = "list" -> \E j \in 1 .. Len(value.val) : HasTaggedKey(value.val[j])
      [] OTHER -> FALSE

\* C18: for a document none of whose keys, at any depth, carries a
\* reference to an extension, process_test_with_extensions returns a
\* document equal to its argument.
C18_RoundTrip ==
    (p_pc = "done" /\ ~HasTaggedKey(p_config)) => processed = Return(p_config)

\* what is before the last "<" of a tagged key, and the name after it
BaseName(key) == SubSeq(key.val, 1, rfind(key.val, "<") - 1)
ExtensionName(key) ==
    LET tail == SubSeq(key.val, rfind(key.val, "<") + 1, Len(key.val))
        named == {j \in 1 .. Len(tail) : tail[j] # ">"}
    IN  IF named = {} THEN <<>>
        ELSE SubSeq(tail, 1, CHOOSE j \in named : \A h \in named : h <= j)

\* an entry of the argument whose key is tagged, whose value is a scalar
\* and whose extension resolves and returns from process
TaggedScalar(entry) ==
    /\ IsTaggedKey(entry[1])
    /\ entry[2].py \notin {"dict", "list"}
    /\ bool(resolve_extension(TheLoader, ExtensionName(entry[1])))
    /\ process(resolve_extension(TheLoader, ExtensionName(entry[1])),
               BaseName(entry[1]), entry[2], [test_config |-> p_config]).kind = "return"

\* the value t.process(base, value, context) returns for such an entry
Transformed(entry) ==
    process(resolve_extension(TheLoader, ExtensionName(entry[1])),
            BaseName(entry[1]), entry[2], [test_config |-> p_config]).value

\* the output holds value under key
Holds(out, key, value) == \E j \in 1 .. Len(out.val) : out.val[j] = <<key, value>>
HasOutKey(out, key) == \E j \in 1 .. Len(out.val) : out.val[j][1] = key

\* C19 as stated: for every tagged key with a scalar value whose extension
\* resolves, the output map holds under the base name the value process
\* returned, and the tagged key is not a key of the output.
C19_TaggedScalar ==
    (p_pc = "done" /\ processed.kind = "return") =>
        \A j \in 1 .. Len(p_config.val) :
            TaggedScalar(p_config.val[j]) =>
                /\ Holds(processed.value, PyStr(BaseName(p_config.val[j][1])),
                         Transformed(p_config.val[j]))
                /\ ~HasOutKey(processed.value, p_config.val[j][1])

IsInternalKey(key) == key.py = "str" /\ key.val # <<>> /\ key.val[1] = "_"

\* the key of the output an entry of the argument is written to
OutKey(entry) ==
    IF IsTaggedKey(entry[1]) /\ ~IsInternalKey(entry[1])
       /\ entry[2].py \notin {"dict", "list"}
    THEN PyStr(BaseName(entry[1]))
    ELSE entry[1]

\* C19 as amended: a tagged key that starts with "_" is copied with its
\* value as it is; for any other tagged key with a scalar value whose
\* extension resolves, the output holds under the base name the value
\* process returned unless a later entry of the same map is written to the
\* same key, and the tagged key is a key of the output only when another
\* entry is written to it.
C19_TaggedScalarUnlessOverwritten ==
    (p_pc = "done" /\ processed.kind = "return") =>
        \A j \in 1 .. Len(p_config.val) :
            LET entry == p_config.val[j]
                later == \E h \in (j + 1) .. Len(p_config.val) :
                            OutKey(p_config.val[h]) = OutKey(entry)
            IN  TaggedScalar(entry) =>
                    IF IsInternalKey(entry[1])
                    THEN later \/ Holds(processed.value, entry[1], entry[2])
                    ELSE /\ later \/ Holds(processed.value, PyStr(BaseName(entry[1])),
                                           Transformed(entry))
                         /\ HasOutKey(processed.value, entry[1]) =>
                                \E h \in 1 .. Len(p_config.val) :
                                    h # j /\ OutKey(p_config.val[h]) = entry[1]

\* `status<multiple>: 200 | 404` alone became status: {type: multiple,
\* values: [200, 404]}
C19_Witness ==
    /\ p_pc = "done"
    /\ p_config.val = << <<Tagged("status", "multiple"),
                           PyStr(<<"2", "0", "0", " ", "|", " ", "4", "0", "4">>)>> >>
    /\ processed = Return(PyDict(<< <<Key("status"),
                      PyDict(<< <<Key("type"), PyStr(<<"multiple">>)>>,
                                <<Key("values"), PyList(<<PyInt(200), PyInt(404)>>)>> >>)>> >>))

\* C20: a tagged key whose value is a map is transformed like any other:
\* `body<encoded_values>: {k: v, ...}` becomes the key `body` whose str
\* values are base64-encoded, and no key `body<encoded_values>` is left.
C20_MapValueTransformed ==
    (p_pc = "done" /\ processed.kind = "return") =>
        \A j \in 1 .. Len(p_config.val) :
            LET key == p_config.val[j][1]
                value == p_config.val[j][2]
            IN  (key = Tagged("body", "encoded_values") /\ value.py = "dict") =>
                    /\ ~HasOutKey(processed.value, key)
                    /\ \E h \in 1 .. Len(processed.value.val) :
                          LET body == processed.value.val[h]
                          IN  /\ body[1] = Key("body")
                              /\ body[2].py = "dict"
                              /\ \A i \in 1 .. Len(value.val) :
                                    value.val[i][2].py = "str" =>
                                        Holds(body[2], value.val[i][1],
                                              PyStr(b64encode(encode(value.val[i][2].val))))

\* an entry of the argument whose key is tagged with a name that is in
\* neither namespace of the loader
UnknownTransform(entry) ==
    /\ IsTaggedKey(entry[1])
    /\ ~bool(resolve_extension(TheLoader, ExtensionName(entry[1])))

\* C21: for a tagged key whose extension name is registered in neither
\* namespace, the output holds the original value under the base name, the
\* tagged key is not a key of the output (in every document whose
\* processing reaches its end).
C21_UnknownTransformPassesThrough ==
    (p_pc = "done" /\ processed.kind = "return") =>
        \A j \in 1 .. Len(p_config.val) :
            UnknownTransform(p_config.val[j]) =>
                /\ Holds(processed.value, PyStr(BaseName(p_config.val[j][1])),
                         p_config.val[j][2])
                /\ ~HasOutKey(processed.value, p_config.val[j][1])

\* the loop of load_all_tests is past the file
Loaded(name) ==
    /\ l_pc \in {"loading", "returned"}
    /\ name \in DOMAIN directory.files
    /\ name \notin yaml_files

\* the k-th document of the file as it is handed to the block processor
Handed(name, k) ==
    PyDict(setitem(directory.files[name].documents[k].val, Internal("source_file"),
                   PyStr(source_file(name, k - 1))))

\* the loop over the documents of the file gets to its k-th document
Reached(name, k) ==
    \A h \in 1 .. (k - 1) :
        directory.files[name].documents[h].py = "dict" =>
            process_test_with_extensions(TheLoader, Handed(name, h)).kind = "return"

\* the outcome of process for a top-level entry of a document whose key is
\* tagged, whose value is a scalar and whose extension resolves
Applies(entry) ==
    /\ IsTaggedKey(entry[1])
    /\ ~IsInternalKey(entry[1])
    /\ entry[2].py \notin {"dict", "list"}
    /\ bool(resolve_extension(TheLoader, ExtensionName(entry[1])))
Applied(entry, doc) ==
    process(resolve_extension(TheLoader, ExtensionName(entry[1])),
            BaseName(entry[1]), entry[2], [test_config |-> doc])

\* the positions of the catalog that hold the k-th document of the file
EntriesOf(name, k) == {j \in 1 .. Len(tests) : origin[j] = <<name, k>>}

\* C22: when process raises for a tagged key of a document the loop of
\* load_all_tests gets to, the catalog holds the document all the same,
\* with the value as written under the base name, every other tagged
\* scalar transformed and every plain scalar as written.
C22_FailureContained ==
    \A name \in FileNames :
        Loaded(name) =>
            \A k \in 1 .. Len(directory.files[name].documents) :
                LET doc == directory.files[name].documents[k]
                IN  (/\ doc.py = "dict"
                     /\ Reached(name, k)
                     /\ \E i \in 1 .. Len(doc.val) :
                            /\ Applies(doc.val[i])
                            /\ Applied(doc.val[i], Handed(name, k)).kind = "raise")
                    => \E j \in EntriesOf(name, k) :
                          \A i \in 1 .. Len(doc.val) :
                              LET entry == doc.val[i]
                                  base == PyStr(BaseName(entry[1]))
                                  call == Applied(entry, Handed(name, k))
                              IN  IF Applies(entry)
                                  THEN IF call.kind = "raise"
                                       THEN Holds(tests[j], base, entry[2])
                                       ELSE Holds(tests[j], base, call.value)
                                  ELSE entry[2].py \in {"dict", "list"}
                                       \/ Holds(tests[j], entry[1], entry[2])

\* `retries<int>: x` made int raise ValueError, and the catalog holds the
\* document with retries: x and the content-type made a multi-value set
C22_Witness ==
    /\ l_pc = "returned"
    /\ <<"int">> \in DOMAIN user_extensions
    /\ \E j \in 1 .. Len(tests) :
          /\ Holds(tests[j], Key("retries"), PyStr(<<"x">>))
          /\ Holds(tests[j], Key("content-type"),
                   PyDict(<< <<Key("type"), PyStr(<<"multiple">>)>>,
                             <<Key("values"), PyList(<<PyStr(<<"j">>), PyStr(<<"t">>)>>)>> >>))

\* loading the file failed: it could not be opened or parsed, or the block
\* processor raised for one of its documents
SourceFailed(name) ==
    \/ directory.files[name].kind # "yaml"
    \/ \E k \in 1 .. Len(directory.files[name].documents) :
          /\ directory.files[name].documents[k].py = "dict"
          /\ Reached(name, k)
          /\ process_test_with_extensions(TheLoader, Handed(name, k)).kind = "raise"

\* C23: once the loop is past a file whose loading failed, the catalog
\* holds none of its documents; once it is past a file whose loading did
\* not fail, the catalog holds every map among its documents.
C23_FailedSourceLeavesNothing ==
    \A name \in FileNames :
        Loaded(name) =>
            \A k \in 1 .. Len(directory.files[name].documents) :
                IF SourceFailed(name)
                THEN EntriesOf(name, k) = {}
                ELSE directory.files[name].documents[k].py = "dict"
                        => EntriesOf(name, k) # {}

\* C24: every entry of the catalog has the key url or the key
\* relative-url.
C24_EveryEntryHasUrl ==
    \A j \in 1 .. Len(tests) :
        HasOutKey(tests[j], Key("url")) \/ HasOutKey(tests[j], Key("relative-url"))

\* the document has expected: {status<multiple>: "200 | 404"}
ExpectsOneOfTwo ==
    Holds(p_config, Key("expected"),
          PyDict(<< <<Tagged("status", "multiple"),
                      PyStr(<<"2", "0", "0", " ", "|", " ", "4", "0", "4">>)>> >>))

\* C25: with the built-in `multiple` in force, a document whose expected
\* block is `status<multiple>: 200 | 404` and which the block processor
\* returns is processed to expected.status = {type: multiple, values:
\* [200, 404]} with int values, and validating a response against it
\* returns True iff the status is 200 or 404.
C25_MultipleStatusEndToEnd ==
    (/\ p_pc \in {"done", "validated"}
     /\ processed.kind = "return"
     /\ ExpectsOneOfTwo
     /\ resolve_extension(TheLoader, <<"multiple">>) = Extension("MultipleExtension"))
    => /\ Holds(processed.value, Key("expected"),
                PyDict(<< <<Key("status"),
                  PyDict(<< <<Key("type"), PyStr(<<"multiple">>)>>,
                            <<Key("values"), PyList(<<PyInt(200), PyInt(404)>>)>> >>)>> >>))
       /\ p_pc = "validated" =>
              /\ v_out.kind = "return"
              /\ v_out.value <=> v_actual["status"] \in {200, 404}

\* such a document was validated against a response with status 404
C25_Witness ==
    /\ p_pc = "validated"
    /\ ExpectsOneOfTwo
    /\ v_actual["status"] = 404
    /\ ReturnedTrue(v_out)

\* C26: every call of process is preceded by a call of validate of the same
\* extension for the same block, and that block is one validate accepts.
C26_ValidateBeforeProcess ==
    \A k \in 1 .. Len(calls) :
        calls[k].method = "process" =>
            /\ \E h \in 1 .. (k - 1) :
                  /\ calls[h].method = "validate"
                  /\ calls[h].extension = calls[k].extension
                  /\ calls[h].block_name = calls[k].block_name
                  /\ calls[h].block_value = calls[k].block_value
            /\ validate(calls[k].extension, calls[k].block_name, calls[k].block_value)

\* C27: the context of every call of process holds, as test_config, the
\* whole document load_all_tests handed to the block processor.
C27_ContextIsWholeDocument ==
    \A k \in 1 .. Len(calls) : calls[k].context.test_config = p_config

\* every tagged key of the value, at any depth, is a key with one
\* reference and a scalar value, under no key that starts with "_"
RECURSIVE OnlyPlainTags(_)
OnlyPlainTags(value) ==
    CASE value.py = "dict" ->
            \A j \in 1 .. Len(value.val) :
                LET key == value.val[j][1]
                    item == value.val[j][2]
                IN  /\ key.py = "str"
                    /\ IsInternalKey(key) => ~IsTaggedKey(key) /\ ~HasTaggedKey(item)
                    /\ IsTaggedKey(key) =>
                          /\ item.py \notin {"dict", "list"}
                          /\ \A i \in 1 .. Len(BaseName(key)) :
                                BaseName(key)[i] \notin {"<", ">"}
                    /\ OnlyPlainTags(item)
      [] value.py = "list" -> \A j \in 1 .. Len(value.val) : OnlyPlainTags(value.val[j])
      [] OTHER -> TRUE

\* C28: the block processor handles a tagged key at every depth: in the
\* output of a document whose tagged keys all have one reference and a
\* scalar value, no key at any depth, through maps and sequences, is
\* tagged.
C28_TagsProcessedAtEveryDepth ==
    (p_pc \in {"done", "validated"} /\ processed.kind = "return" /\ OnlyPlainTags(p_config))
        => ~HasTaggedKey(processed.value)

\* the entries, at any depth, whose key has the syntax of a reference to
\* an extension that resolves
RECURSIVE TaggedEntries(_)
RECURSIVE TaggedEntriesFrom(_, _, _)
TaggedEntriesFrom(value, j, in_map) ==
    IF j > Len(value) THEN <<>>
    ELSE LET here == IF in_map /\ has_extension_syntax(value[j][1])
                        /\ bool(resolve_extension(TheLoader, ExtensionName(value[j][1])))
                     THEN <<value[j]>> ELSE <<>>
             item == IF in_map THEN value[j][2] ELSE value[j]
         IN  here \o TaggedEntries(item) \o TaggedEntriesFrom(value, j + 1, in_map)
TaggedEntries(value) ==
    CASE value.py = "dict" -> TaggedEntriesFrom(value.val, 1, TRUE)
      [] value.py = "list" -> TaggedEntriesFrom(value.val, 1, FALSE)
      [] OTHER -> <<>>

\* C29: process is called once for every key of the document with the
\* syntax of a reference whose extension resolves, with the value of that
\* key; and what it returns for a top-level key is stored under the part
\* of the key before the last "<" as it is (unless a later key is written
\* to the same place).
C29_OneApplicationPerTaggedKey ==
    (p_pc \in {"done", "validated"} /\ processed.kind = "return") =>
        /\ Len(calls) = Len(TaggedEntries(p_config))
        /\ \A k \in 1 .. Len(calls) :
              /\ calls[k].method = "process"
              /\ PyStr(calls[k].block_name) = PyStr(BaseName(TaggedEntries(p_config)[k][1]))
              /\ calls[k].block_value = TaggedEntries(p_config)[k][2]
        /\ \A j \in 1 .. Len(p_config.val) :
              LET entry == p_config.val[j]
                  call == Applied(entry, p_config)
                  later == \E h \in (j + 1) .. Len(p_config.val) :
                              OutKey(p_config.val[h]) = OutKey(entry)
              IN  (Applies(entry) /\ call.kind = "return" /\ ~later) =>
                      Holds(processed.value, PyStr(BaseName(entry[1])), call.value)

\* the decimal digits of the positions 1 .. 9
Position(k) == <<Digits[k + 1]>>

\* C30: every entry of the catalog holds, under `_source_file`, the name
\* of its file, "#" and the 1-based position of its document among all
\* documents of the file, whatever the document itself said under that
\* key; a document that is no map has no entry; and two entries of
\* different files or positions hold different tags.
C30_SourceFileTag ==
    /\ \A j \in 1 .. Len(tests) :
          LET name == origin[j][1]
              k == origin[j][2]
          IN  /\ directory.files[name].documents[k].py = "dict"
              /\ Holds(tests[j], Internal("source_file"),
                       PyStr(name \o <<"#">> \o Position(k)))
    /\ \A i \in 1 .. Len(tests) : \A j \in 1 .. Len(tests) :
          origin[i] # origin[j] =>
              ItemGet(tests[i].val, Internal("source_file"), PyStr(<<>>))
                  # ItemGet(tests[j].val, Internal("source_file"), PyStr(<<>>))
    /\ \A name \in FileNames :
          Loaded(name) =>
              \A k \in 1 .. Len(directory.files[name].documents) :
                  directory.files[name].documents[k].py # "dict" => EntriesOf(name, k) = {}

\* the second document of a.yaml, which follows a document that is no map
\* and says `_source_file: mine`, is in the catalog with the tag a.yaml#2
C30_Witness ==
    /\ l_pc = "returned"
    /\ <<"a", ".yaml">> \in DOMAIN directory.files
    /\ Len(directory.files[<<"a", ".yaml">>].documents) = 2
    /\ directory.files[<<"a", ".yaml">>].documents[1] = PyStr(<<"text">>)
    /\ Holds(directory.files[<<"a", ".yaml">>].documents[2],
             Internal("source_file"), PyStr(<<"mine">>))
    /\ \E j \in 1 .. Len(tests) :
          /\ origin[j] = << <<"a", ".yaml">>, 2 >>
          /\ Holds(tests[j], Internal("source_file"), PyStr(<<"a", ".yaml", "#", "2">>))

\* the body types the body rule knows
KnownTypes == {"exact", "regex", "contains", "empty"}

\* C40: a `response` expectation without a `type` is checked as `exact`:
\* validation returns false when the (possibly trimmed) body differs from
\* the value, and with only `response` expected it returns true iff they
\* are equal. A `response` expectation whose type is none of exact, regex,
\* contains, empty imposes no constraint: the outcome is the one of the
\* other rules alone, true when only `response` is expected, whatever the
\* body is.
C40_UntypedAndUnknownType ==
    (v_pc = "done" /\ "response" \in DOMAIN v_expected) =>
        LET want == v_expected["response"]
            body == IF TrimOn THEN Stripped(v_actual["body"]) ELSE v_actual["body"]
            others == [k \in DOMAIN v_expected \ {"response"} |-> v_expected[k]]
        IN  /\ ("type" \notin DOMAIN want /\ "value" \in DOMAIN want) =>
                  /\ body # want["value"] => ReturnedFalse(v_out)
                  /\ DOMAIN v_expected = {"response"} =>
                        (ReturnedTrue(v_out) <=> body = want["value"])
            /\ ("type" \in DOMAIN want /\ want["type"] \notin KnownTypes) =>
                  /\ v_out = validate_response(global_config, others, v_actual)
                  /\ DOMAIN v_expected = {"response"} => ReturnedTrue(v_out)

\* an expectation of type json with the value o passes with the body ok
C40_Witness ==
    /\ v_pc = "done"
    /\ v_expected = ("response" :> [type |-> "json", value |-> <<"o">>])
    /\ v_actual["body"] = <<"o", "k">>
    /\ ReturnedTrue(v_out)

\* C36: the registry is written only during the load phase: no step of
\* run_tests, whatever the interleaving of the units, changes the two
\* registry mappings, the decorator registry or the precedence flag.
C36_RegistryReadOnly == [][registry' = registry]_vars

\* two units are under way, one waiting for its answer and one pausing
\* before a retry, and the registry is the one the load phase left
C36_Witness ==
    /\ phase = "gather"
    /\ \E i \in Cases : \E j \in Cases : pc[i] = "inflight" /\ pc[j] = "sleep"
    /\ core_extensions = CORE_EXTENSIONS
    /\ user_extensions = EmptyDict
    /\ precedence = "non-core"

\* C39: every unit gives its permit back exactly once on every exit path:
\* while the gate exists the free permits and the units holding the gate
\* add up to the configured size N, and once gather has returned (so also
\* when run_tests has finished) all N permits are free.
C39_PermitsConserved ==
    GateExists =>
        /\ semaphore + Cardinality(Holding) = SemaphoreValue(global_config)
        /\ phase \in {"aggregate", "returned", "raised"} =>
              semaphore = SemaphoreValue(global_config)

\* run_tests finished with a gate of 2 after one unit returned a passing
\* result, one a failed result and one let an exception escape
C39_Witness ==
    /\ phase = "returned"
    /\ SemaphoreValue(global_config) = 2
    /\ semaphore = 2
    /\ \E i \in Cases : results[i].kind = "Exception"
    /\ \E i \in Cases : results[i].kind = "TestResult" /\ results[i].passed
    /\ \E i \in Cases : results[i].kind = "TestResult" /\ results[i].error # None

\* a unit that was dispatched: it entered run_test_with_semaphore
Dispatched(i) == pc[i] # "pending"

\* C32: the client session spans the batch: a unit is dispatched only
\* once the session was opened, a unit whose request is in flight or which
\* pauses before a retry finds the session open, and the session is closed
\* only when every unit has finished.
C32_SessionSpansBatch ==
    /\ \A i \in Cases : Dispatched(i) => session # "none"
    /\ \A i \in Cases : pc[i] \in {"inflight", "sleep"} => session = "open"
    /\ session = "closed" => \A i \in Cases : pc[i] = "done"

\* the session is closed after a unit made a second attempt that followed
\* a timeout and a pause
C32_Witness ==
    /\ session = "closed"
    /\ \E i \in Cases : issued[i] = 2 /\ log[i] = <<"timeout", "response">>

\* what a step does to the retry loop of case i
RetryStep(i) ==
    \* an attempt is the first one of a dispatched case or follows the
    \* pause after a timed-out attempt
    /\ issued'[i] # issued[i] =>
          /\ issued'[i] = issued[i] + 1
          /\ pc'[i] = "inflight"
          /\ IF issued[i] = 0 THEN pc[i] = "pending"
             ELSE pc[i] = "sleep" /\ Last(log[i]) = "timeout"
    \* a pause begins only after a timed-out attempt that is not the last
    /\ (pc'[i] = "sleep" /\ pc[i] # "sleep") =>
          /\ pc[i] = "inflight"
          /\ log'[i] = Append(log[i], "timeout")
          /\ issued[i] < Retries
    \* and ends with the next attempt
    /\ (pc[i] = "sleep" /\ pc'[i] # "sleep") =>
          pc'[i] = "inflight" /\ issued'[i] = issued[i] + 1
    \* the final attempt timing out ends the case
    /\ (pc[i] = "inflight" /\ issued[i] = Retries /\ log'[i] # log[i]) =>
          pc'[i] = "done"
    \* a response ends the case, whatever validation says
    /\ (log'[i] # log[i] /\ Last(log'[i]) = "response") =>
          pc'[i] = "done" /\ results'[i].kind = "TestResult"
    \* a case that ended makes no attempt and takes no pause
    /\ pc[i] = "done" => pc'[i] = "done" /\ issued'[i] = issued[i]

\* C34: within one case the retry loop runs attempt, pause, attempt: a
\* pause begins only after a timed-out attempt that is not the final one
\* and is followed by the next attempt; no pause follows the final attempt
\* or a response; after a response no attempt is made, even when the
\* response fails validation.
C34_RetryOrder == [][\A i \in Cases : RetryStep(i)]_vars

\* with two attempts allowed, one case was answered at its second attempt
\* after a timeout and a pause, and another ended at its first attempt with
\* a response that failed validation
C34_Witness ==
    /\ Retries = 2
    /\ \E i \in Cases : pc[i] = "done" /\ log[i] = <<"timeout", "response">>
    /\ \E i \in Cases :
          /\ pc[i] = "done" /\ log[i] = <<"response">> /\ issued[i] = 1
          /\ IsFailure(results[i])

\* a case that failed: its result failed validation or carries a request
\* error, or its unit let an exception escape
CaseFailed(i) == results[i].kind = "Exception" \/ IsFailure(results[i])

\* C37: once the batch has run, run_tests returns, and it returns true iff
\* no case failed (validation, request error or escaped exception).
C37_SuccessIffNoFailure ==
    (session = "closed" /\ phase \in {"returned", "raised"}) =>
        /\ ret.kind = "return"
        /\ ret.value <=> ~\E i \in Cases : CaseFailed(i)

\* the first failed case in submission order
FirstFailed == CHOOSE j \in Cases : CaseFailed(j) /\ \A k \in Cases : CaseFailed(k) => j <= k

\* C38: with stop-on-fail set, the result loop stops at the first failed
\* case whatever the kind of failure: the failed count never exceeds 1 and
\* no case after the first failed one is counted.
C38_StopsAtFirstFailure ==
    (StopOnFail /\ phase \in {"aggregate", "returned"}) =>
        /\ failed <= 1
        /\ (\E j \in Cases : CaseFailed(j)) => passed + failed <= FirstFailed

\* case i ran to its own completion: its last attempt was answered, failed
\* with an error, or was the final attempt and timed out
Completed(i) ==
    /\ pc[i] = "done"
    /\ log[i] # <<>>
    /\ \/ Last(log[i]) \in {"response", "error"}
       \/ Last(log[i]) = "timeout" /\ issued[i] = Retries

\* C33: there is no cross-case cancellation: a unit that was let through
\* the gate and issued its request eventually runs to its own completion
\* (response, terminal timeout or error), whatever the other cases do and
\* whether or not stop-on-fail is set.
C33_RunsToCompletion ==
    \A i \in Cases : (pc[i] \in {"inflight", "sleep"}) ~> Completed(i)

\* with stop-on-fail set one case failed at its only attempt and another
\* was answered at its second attempt
C33_Witness ==
    /\ StopOnFail
    /\ \E j \in Cases : log[j] = <<"error">> /\ IsFailure(results[j])
    /\ \E i \in Cases : log[i] = <<"timeout", "response">> /\ Completed(i)

\* the url the claim gives the request of a test
ResolvedUrl(test) ==
    IF "url" \in DOMAIN test THEN test["url"]
    ELSE urljoin(global_config["baseUrl"], test["relative-url"])

\* C31: every request of a case goes to the test's `url` when it has one,
\* whether or not it has a `relative-url`, else to its `relative-url`
\* joined to baseUrl; its method is `type` in upper case, GET when absent;
\* it carries a JSON body iff the test has `body`, and then that body; the
\* TestResult is named by `name`, else by the provenance tag, and carries
\* the same url.
C31_RequestResolution ==
    \A i \in Cases :
        LET test == tests[i]
        IN  /\ \A k \in 1 .. Len(requests[i]) :
                  LET request == requests[i][k]
                  IN  /\ request.url = ResolvedUrl(test)
                      /\ request.method = IF "type" \in DOMAIN test
                                          THEN upper(test["type"])
                                          ELSE <<"G", "E", "T">>
                      /\ DOMAIN request.kwargs =
                            IF "body" \in DOMAIN test THEN {"json"} ELSE {}
                      /\ "body" \in DOMAIN test => request.kwargs["json"] = test["body"]
            /\ Len(requests[i]) = issued[i]
            /\ results[i].kind = "TestResult" =>
                  /\ results[i].url = ResolvedUrl(test)
                  /\ results[i].name = IF "name" \in DOMAIN test THEN test["name"]
                                       ELSE test["_source_file"]

\* a test with url and relative-url, type post, a body and no name was
\* sent twice as POST to its url with the body, and its result bears the
\* provenance tag
C31_Witness ==
    /\ {"url", "relative-url", "body"} \subseteq DOMAIN tests[1]
    /\ "name" \notin DOMAIN tests[1]
    /\ Len(requests[1]) = 2
    /\ requests[1][2] = [method |-> <<"P", "O", "S", "T">>,
                         url |-> <<"http://x", "/", "a">>,
                         kwargs |-> ("json" :> ("k" :> "v"))]
    /\ results[1].kind = "TestResult"
    /\ results[1].name = <<"t.yaml", 1>>

\* C35: every TestResult of run_test has duration >= 0; one with passed
\* true has no error, holds in actual the status, body and headers of a
\* response, and validate_response(expected, actual) is true; one with
\* error set has passed false and an empty actual.
C35_ResultInvariant ==
    \A i \in Cases :
        results[i].kind = "TestResult" =>
            LET result == results[i]
            IN  /\ result.duration >= 0
                /\ result.passed =>
                      /\ result.error = None
                      /\ \E response \in UnitResponses \cup Responses :
                            result.actual = [status |-> response.status,
                                             body |-> response.body,
                                             headers |-> dict(response.headers)]
                      /\ validate_response(global_config, result.expected,
                                           result.actual) = Return(TRUE)
                /\ result.error # None =>
                      ~result.passed /\ result.actual = EmptyDict

\* a result that passed at the second attempt, one unit of time after
\* run_test started, with the body and the header of the response
C35_Witness ==
    /\ log[1] = <<"timeout", "response">>
    /\ results[1].kind = "TestResult"
    /\ results[1].passed
    /\ results[1].duration = 1
    /\ results[1].actual["body"] = <<"o", "k">>
    /\ HasKey(results[1].actual["headers"], "Content-Type")

====
